---- MODULE Spec2Model ----
(***************************************************************************)
(* Back-end request handlers of the launcher (src/back/responses.ts):      *)
(* the query cache and the catalog-mutating handlers, the playlist         *)
(* filename probing of save-playlist, difObjects, and the init-milestone   *)
(* listeners.  Every handler is an async function: it is modelled as one   *)
(* action per run-to-completion segment, a segment ending at an await.     *)
(***************************************************************************)
EXTENDS Integers, Sequences, FiniteSets, TLC

VARIABLES
  handlers,    \* one record per request dispatched so far; its index is the request id
  sent,        \* the envelopes handed to respond()/broadcast(), in sending order
  unhandled,   \* rejections of promises nobody awaits
  games,       \* the catalog store: game id -> Game
  dbVersion,   \* number of writes the catalog store has applied
  pending,     \* catalog writes issued to the store and not yet applied
  uuids,       \* number of uuid() calls made
  queries,     \* the object state.queries refers to: hash -> BackQueryChache
  queriesObj,  \* identity of the object state.queries refers to
  nComputed,   \* number of queryGames calls made (computation counter)
  completed,   \* hash -> stamp of the entry of a lookup that completed with no
               \* step of a mutating request since it began
  init,        \* state.init: milestone -> done
  listeners,   \* the once-listeners of state.initEmitter, in registration order
  files,       \* the playlist folder: filename -> what was last written to it
  playlists,   \* state.playlists: the playlists loaded, a sequence
  dif,         \* the arguments and the result of a difObjects call
  lookup,      \* a cache entry and the responses computed from it
  back         \* the rest of the state: settings, config, locale, log, images, ...

cacheVars == <<games, dbVersion, pending, uuids, queries, queriesObj, nComputed, completed>>
nonCacheVars == <<init, listeners, files, playlists, dif, lookup, back>>
vars == <<handlers, sent, unhandled, cacheVars, nonCacheVars>>

----------------------------------------------------------------------------
(* Bounds *)

\* Requests dispatched in one behaviour.
MaxRequests == 2

\* The id of an unsolicited envelope (id: '').
EmptyId == 0

\* The value of an absent (undefined) field.
None == "undefined"

Channels == {"c1", "c2"}

RequestIds == 1..MaxRequests

----------------------------------------------------------------------------
(* Strings are sequences of one-character strings. *)

Upper == {"M", "Z", "F"}

toLowerCaseChar(c) ==
  CASE c = "M" -> "m"
    [] c = "Z" -> "z"
    [] c = "F" -> "f"
    [] OTHER -> c

toLowerCase(s) == [i \in 1..Len(s) |-> toLowerCaseChar(s[i])]

startsWith(s, p) == Len(p) <= Len(s) /\ SubSeq(s, 1, Len(p)) = p

includes(s, p) ==
  \E i \in 0..(Len(s) - Len(p)) : SubSeq(s, i + 1, i + Len(p)) = p

----------------------------------------------------------------------------
(* The catalog *)

Game(id, title, library, extreme, broken) ==
  [id |-> id, title |-> title, library |-> library, extreme |-> extreme, broken |-> broken]

InitialGames ==
  (1 :> Game(1, <<"M", "a">>, "arcade", FALSE, FALSE)) @@
  (2 :> Game(2, <<"m", "b">>, "arcade", FALSE, FALSE)) @@
  (3 :> Game(3, <<"Z", "a">>, "theatre", TRUE, FALSE))

\* The games a save-entry request may carry: an edit of game 1 and a new game.
SaveInputs ==
  { Game(1, <<"Z", "m">>, "arcade", FALSE, FALSE),
    Game(4, <<"m", "c">>, "theatre", FALSE, FALSE) }

\* The ids a delete-entry request may name.
DeleteInputs == {1}

\* The payloads of a duplicate-entry request (9 is not in the catalog).
DuplicateInputs ==
  { [id |-> 1, dupeImages |-> FALSE], [id |-> 1, dupeImages |-> TRUE],
    [id |-> 9, dupeImages |-> FALSE] }

\* uuid(): a fresh id on every call.
uuid(n) == 100 + n

\* The values of the variables a specification leaves alone.
NoInit == <<>>

NoDif == <<>>

NoLookup == <<>>

----------------------------------------------------------------------------
(* difObjects: values, objects with identity, and the recursive difference *)

\* A value: its typeof, the identity of an object, the value of a primitive,
\* and the properties of an object in for..in order.
Prim(type, val) == [type |-> type, ref |-> 0, val |-> val, fields |-> <<>>]

Obj(ref, fields) == [type |-> "object", ref |-> ref, val |-> "", fields |-> fields]

Field(key, value) == [key |-> key, value |-> value]

Undefined == Prim("undefined", "")

Null == Prim("null", "")

\* The error of reading a property of null or undefined.
TypeError == Prim("TypeError", "")

\* typeof x: null is an 'object'.
TypeOf(x) == IF x.type = "null" THEN "object" ELSE x.type

\* x[key]: undefined when x has no such property.
Get(x, key) ==
  LET at == {i \in 1..Len(x.fields) : x.fields[i].key = key}
  IN IF at = {} THEN Undefined ELSE x.fields[CHOOSE i \in at : TRUE].value

\* Every two values count as different.
StrictNotEqualAlways(x, y) == TRUE

\* x !== y: objects are compared by identity, primitives by type and value.
StrictNotEqual(x, y) ==
  \/ x.type # y.type
  \/ IF x.type = "object" THEN x.ref # y.ref ELSE x.val # y.val

\* Every value counts as true.
TruthyAlways(x) == TRUE

\* if (subDif): undefined is false, an object is true.
Truthy(x) == x.type # "undefined"

\* if (!dif) { dif = {}; } dif[key] = value
SetDif(d, key, value) ==
  IF d.type = "undefined" THEN Obj(0, <<Field(key, value)>>)
  ELSE Obj(0, Append(d.fields, Field(key, value)))

\* A copy that is the object itself.
deepCopyShared(x) == x

\* A structurally equal copy of x made of new objects.
RECURSIVE deepCopy(_)
deepCopy(x) ==
  IF x.type = "object"
  THEN Obj(x.ref + 100,
           [i \in 1..Len(x.fields) |-> Field(x.fields[i].key, deepCopy(x.fields[i].value))])
  ELSE x

RECURSIVE difObjects(_, _, _)
difObjects(template, a, b) ==
  LET n == Len(template.fields)
      D[i \in 0..n] ==
        IF i = 0 THEN Undefined
        ELSE LET key == template.fields[i].key
                 tk == template.fields[i].value
                 ak == Get(a, key)
                 bk == Get(b, key)
             IN IF D[i - 1].type = "TypeError" THEN TypeError
                ELSE IF StrictNotEqual(ak, bk) /\ bk.type # "undefined"
                THEN IF TypeOf(tk) = "object" /\ TypeOf(ak) = "object" /\ TypeOf(bk) = "object"
                     THEN LET subDif == difObjects(tk, ak, bk)
                          IN IF subDif.type = "TypeError" THEN TypeError
                             ELSE IF Truthy(subDif) THEN SetDif(D[i - 1], key, subDif)
                             ELSE D[i - 1]
                     ELSE SetDif(D[i - 1], key, bk)
                ELSE D[i - 1]
  IN IF n > 0 /\ (a.type \in {"null", "undefined"} \/ b.type \in {"null", "undefined"})
     THEN TypeError
     ELSE D[n]

\* The leaf values of the settings.
Languages == {Prim("string", "en"), Prim("string", "fr")}

Scales == {Prim("number", "0"), Prim("number", "1")}

Flags == {Prim("boolean", "false"), Prim("boolean", "true")}

\* A settings object and its nested object, from their leaves; a leaf that is
\* undefined is left out.
OptField(key, value) == IF value.type = "undefined" THEN <<>> ELSE <<Field(key, value)>>

Nested(ref, leaf, on) == Obj(ref, OptField("leaf", leaf) \o OptField("on", on))

Settings(ref, currentLanguage, fallbackLanguage, nested) ==
  Obj(ref, OptField("currentLanguage", currentLanguage)
             \o OptField("fallbackLanguage", fallbackLanguage)
             \o OptField("nested", nested))

\* The template: the default settings.
DefaultSettings ==
  Settings(1, Prim("string", "en"), Prim("string", "en"),
           Nested(2, Prim("number", "0"), Prim("boolean", "false")))

\* The values of the template's shape.
CurrentSettings ==
  { Settings(10, l, Prim("string", "en"), Nested(11, n, o)) :
      l \in Languages, n \in Scales, o \in Flags }

\* A candidate with properties the template does not have.
UnknownKeys(leaf) ==
  Obj(22, <<Field("unknown", Prim("string", "x")),
            Field("nested", Obj(23, <<Field("unknownLeaf", Prim("number", "1")),
                                      Field("leaf", leaf)>>))>>)

\* The candidates compared with a: a itself, a deep copy, and partial objects
\* whose nested object is absent, null, a's own, or a new one, and objects
\* with properties unknown to the template.
Candidates(a) ==
  {a, deepCopy(a)} \cup { UnknownKeys(n) : n \in Scales } \cup
  { Settings(20, l, f, nst) :
      l \in Languages \cup {Undefined},
      f \in {Undefined, Prim("string", "fr")},
      nst \in {Undefined, Null, Get(a, "nested")} \cup
              { Nested(21, n, o) : n \in Scales \cup {Undefined}, o \in Flags \cup {Undefined} } }

----------------------------------------------------------------------------
(* The rest of the state of the back *)

\* createContainer(languages, current, locale, fallback)
createContainer(current, locale, fallback) ==
  [current |-> current, locale |-> locale, fallback |-> fallback]

\* The state at registration: default settings, nothing logged or written.
InitialBack ==
  [preferences |-> Settings(10, Prim("string", "en"), Prim("string", "en"),
                            Nested(11, Prim("number", "0"), Prim("boolean", "false"))),
   preferencesFile |-> Undefined,
   config |-> Obj(30, <<Field("flashpointPath", Prim("string", <<"f", "p">>)),
                        Field("imageFolderPath", Prim("string", <<"I", "m", "g">>))>>),
   configFile |-> Undefined,
   localeCode |-> "en-us",
   languageContainer |-> createContainer("en", "en-us", "en"),
   log |-> <<>>,
   images |-> {},
   launched |-> {},
   services |-> [server |-> "stopped"],
   exported |-> {},
   exited |-> FALSE]

----------------------------------------------------------------------------
(* Queries and the cache key *)

Query(extreme, broken, library, search, orderBy, orderReverse, playlistId) ==
  [extreme |-> extreme, broken |-> broken, library |-> library, search |-> search,
   orderBy |-> orderBy, orderReverse |-> orderReverse, playlistId |-> playlistId]

\* The queries a request may carry.
QueryArcade == Query(FALSE, FALSE, "arcade", <<"m">>, "title", "ascending", None)

QueryInputs == { QueryArcade, Query(TRUE, FALSE, None, <<>>, "title", "ascending", None) }

\* The BackQuery a lookup handler builds from the request's query.
BackQueryOf(q) ==
  [extreme |-> q.extreme, broken |-> q.broken, library |-> q.library, search |-> q.search,
   orderBy |-> q.orderBy, orderReverse |-> q.orderReverse, playlistId |-> q.playlistId]

JsonBool(b) == IF b THEN <<"true">> ELSE <<"false">>

\* The characters of a JSON string: a quote and a backslash are escaped.
RECURSIVE JsonEscape(_)
JsonEscape(s) ==
  IF s = <<>> THEN <<>>
  ELSE (IF Head(s) \in {"\"", "\\"} THEN <<"\\", Head(s)>> ELSE <<Head(s)>>)
       \o JsonEscape(Tail(s))

JsonString(s) == <<"\"">> \o JsonEscape(s) \o <<"\"">>

\* One "name":value member; a member whose value is undefined is left out.
JsonMember(name, present, value) ==
  IF present THEN << <<"\"", name, "\"", ":">> \o value >> ELSE <<>>

RECURSIVE JsonJoin(_)
JsonJoin(members) ==
  IF members = <<>> THEN <<>>
  ELSE IF Len(members) = 1 THEN members[1]
  ELSE members[1] \o <<",">> \o JsonJoin(Tail(members))

\* JSON.stringify(query): the members in the order the handler wrote them.
JSONstringify(query) ==
  <<"{">> \o
  JsonJoin(
    JsonMember("extreme", TRUE, JsonBool(query.extreme)) \o
    JsonMember("broken", TRUE, JsonBool(query.broken)) \o
    JsonMember("library", query.library # None, JsonString(<<query.library>>)) \o
    JsonMember("search", TRUE, JsonString(query.search)) \o
    JsonMember("orderBy", query.orderBy # None, JsonString(<<query.orderBy>>)) \o
    JsonMember("orderReverse", query.orderReverse # None, JsonString(<<query.orderReverse>>)) \o
    JsonMember("playlistId", query.playlistId # None, JsonString(<<query.playlistId>>)))
  \o <<"}">>

\* createHash('sha256').update(s).digest('base64'): the digest stands for its
\* preimage (no two preimages of the model share a digest).
createHash(s) == <<"sha256">> \o s

hashOf(query) == createHash(JSONstringify(query))

----------------------------------------------------------------------------
(* The catalog store (GameManager) *)

NoPlaylist == [filename |-> None, title |-> <<>>, games |-> {}]

\* state.playlists of the cache handlers.
CachePlaylists == << [filename |-> "fav.json", title |-> <<"F", "a", "v">>, games |-> {1, 3}] >>

\* playlists.find(p => p.filename === id)
FindPlaylist(list, id) ==
  IF \E i \in 1..Len(list) : list[i].filename = id
  THEN list[CHOOSE i \in 1..Len(list) :
              /\ list[i].filename = id
              /\ \A j \in 1..(i - 1) : list[j].filename # id]
  ELSE NoPlaylist

\* Whether a game passes the filter options handed to the store.
GameMatches(g, filterOpts) ==
  /\ filterOpts.extreme \/ ~g.extreme
  /\ filterOpts.broken \/ ~g.broken
  /\ includes(toLowerCase(g.title), toLowerCase(filterOpts.search))
  /\ filterOpts.playlist.filename = None \/ g.id \in filterOpts.playlist.games

RECURSIVE SortedById(_)
SortedById(ids) ==
  IF ids = {} THEN <<>>
  ELSE LET m == CHOOSE x \in ids : \A y \in ids : x <= y
       IN <<m>> \o SortedById(ids \ {m})

\* GameManager.findGames(filterOpts) on catalog cat.
FindGames(cat, filterOpts) ==
  LET ids == SortedById({id \in DOMAIN cat : GameMatches(cat[id], filterOpts)})
  IN [i \in 1..Len(ids) |-> cat[ids[i]]]

\* GameManager.countGames() on catalog cat.
CountGames(cat) == Cardinality(DOMAIN cat)

\* searchGames: the filter options built from the search options.
SearchFilterOpts(opts) ==
  [search |-> opts.query, extreme |-> opts.extreme, broken |-> opts.broken,
   playlist |-> opts.playlist]

\* queryGames up to its await: the search options passed to searchGames.
QuerySearchOpts(list, query) ==
  [extreme |-> query.extreme, broken |-> query.broken, query |-> query.search,
   orderBy |-> query.orderBy, orderReverse |-> query.orderReverse,
   library |-> query.library, playlist |-> FindPlaylist(list, query.playlistId)]

ViewGame(g) == [id |-> g.id, title |-> g.title]

\* queryGames after its await: the cache entry built from the store's results.
\* stamp (the number of the queryGames call) and ver (the store version read)
\* are bookkeeping of the model.
QueryGames(query, results, stamp, ver) ==
  [query |-> query, games |-> results,
   viewGames |-> [i \in 1..Len(results) |-> ViewGame(results[i])],
   stamp |-> stamp, ver |-> ver]

----------------------------------------------------------------------------
(* The cache object *)

EmptyCache == <<>>

\* A handler that leaves the cache as it is.
ClearCacheSkipped == [obj |-> queriesObj, map |-> queries]

\* state.queries = {}: a new, empty object.
ClearCache == [obj |-> queriesObj + 1, map |-> EmptyCache]

\* A lookup that keeps its entry to itself.
PutQueryLost(obj, hash, entry) == queries

\* state.queries[hash] = cache = await queryGames(...): the object written is
\* the one state.queries referred to before the await (obj); when the cache
\* was replaced meanwhile the write lands in the detached object.
PutQuery(obj, hash, entry) ==
  IF obj = queriesObj
  THEN [k \in DOMAIN queries \cup {hash} |-> IF k = hash THEN entry ELSE queries[k]]
  ELSE queries

\* A slice that takes the element at end too.
sliceInclusive(s, start, end) ==
  IF start >= 0 /\ start < Len(s)
  THEN SubSeq(s, start + 1, IF end + 1 < Len(s) THEN end + 1 ELSE Len(s))
  ELSE <<>>

\* Array.prototype.slice(start, end) on a sequence (0-based indices).
slice(s, start, end) ==
  LET len == Len(s)
      k == IF start < 0 THEN (IF len + start > 0 THEN len + start ELSE 0)
           ELSE (IF start < len THEN start ELSE len)
      final == IF end < 0 THEN (IF len + end > 0 THEN len + end ELSE 0)
               ELSE (IF end < len THEN end ELSE len)
  IN IF final > k THEN SubSeq(s, k + 1, final) ELSE <<>>

----------------------------------------------------------------------------
(* Dispatch: handler records and envelopes *)

\* respond(target, {id, type, data})
Envelope(target, id, type, data) == [to |-> target, id |-> id, type |-> type, data |-> data]

Handler(kind, ch, pc, arg, loc) == [kind |-> kind, ch |-> ch, pc |-> pc, arg |-> arg, loc |-> loc]

LookupKinds == {"BROWSE_VIEW_PAGE", "BROWSE_VIEW_INDEX", "QUICK_SEARCH"}

MutatingKinds == {"SAVE_GAME", "DELETE_GAME", "DUPLICATE_GAME"}

CanDispatch == Len(handlers) < MaxRequests

InFlight(h) == h \in 1..Len(handlers) /\ handlers[h].pc \notin {"done", "rejected"}

\* A step of a mutating request: lookups in flight are no longer free of
\* mutations (bookkeeping for the idempotent-hit property).
Tainted(hs) ==
  [h \in 1..Len(hs) |->
     IF hs[h].kind \in LookupKinds /\ hs[h].pc \notin {"done", "rejected"}
     THEN [hs[h] EXCEPT !.loc.clean = FALSE]
     ELSE hs[h]]

----------------------------------------------------------------------------
(* browse-page, browse-index, quick-search *)

\* The request payloads of the lookup handlers.
LookupInputs ==
  { [kind |-> "BROWSE_VIEW_PAGE", data |-> [query |-> q, offset |-> 0, limit |-> 2]] :
      q \in QueryInputs } \cup
  { [kind |-> "BROWSE_VIEW_INDEX", data |-> [query |-> q, gameId |-> 2]] :
      q \in {QueryArcade} } \cup
  { [kind |-> "QUICK_SEARCH", data |-> [query |-> q, search |-> <<"m">>]] :
      q \in {QueryArcade} }

\* browse-page: the slice of viewGames and the total.
PageData(data, cache) ==
  [games |-> slice(cache.viewGames, data.offset, data.offset + data.limit),
   offset |-> data.offset,
   total |-> Len(cache.games)]

\* An index that counts from one.
IndexDataFromOne(data, cache) ==
  LET hits == {i \in 1..Len(cache.viewGames) : cache.viewGames[i].id = data.gameId}
  IN [index |-> IF hits = {} THEN -1 ELSE CHOOSE i \in hits : \A j \in hits : i <= j]

\* browse-index: the first index of viewGames holding gameId, else -1.
IndexData(data, cache) ==
  LET hits == {i \in 1..Len(cache.viewGames) : cache.viewGames[i].id = data.gameId}
  IN [index |-> IF hits = {} THEN -1
                ELSE (CHOOSE i \in hits : \A j \in hits : i <= j) - 1]

\* quick-search: the first game whose lower-cased title starts with the
\* request's search string; an absent id or index is the empty sequence.
QuickSearchData(data, cache) ==
  LET hits == {i \in 1..Len(cache.games) :
                 startsWith(toLowerCase(cache.games[i].title), data.search)}
  IN IF hits = {} THEN [id |-> <<>>, index |-> <<>>]
     ELSE LET i == CHOOSE i \in hits : \A j \in hits : i <= j
          IN [id |-> <<cache.games[i].id>>, index |-> <<i - 1>>]

LookupResponse(kind, target, id, data, cache) ==
  CASE kind = "BROWSE_VIEW_PAGE" ->
         Envelope(target, id, "BROWSE_VIEW_PAGE_RESPONSE", PageData(data, cache))
    [] kind = "BROWSE_VIEW_INDEX" ->
         Envelope(target, id, "GENERIC_RESPONSE", IndexData(data, cache))
    [] kind = "QUICK_SEARCH" ->
         Envelope(target, id, "GENERIC_RESPONSE", QuickSearchData(data, cache))

\* The mutating requests that changed the catalog and have sent their response
\* (bookkeeping: what a lookup starts after).
Responded ==
  {m \in 1..Len(handlers) :
     handlers[m].kind \in MutatingKinds /\ handlers[m].pc = "done" /\ handlers[m].loc.mutated}

\* A lookup of hash completed with the entry stamped stamp (bookkeeping).
Completing(hash, stamp) ==
  [k \in DOMAIN completed \cup {hash} |-> IF k = hash THEN stamp ELSE completed[k]]

\* let cache = state.queries[hash]; if (!cache) ...
CacheHit(hash) == hash \in DOMAIN queries

\* A lookup request arrives: the handler builds the query and its hash and
\* reads the cache.  On a hit it responds at once; on a miss it calls
\* queryGames and is suspended at the store's findGames.
LookupStart(ch, in) ==
  /\ CanDispatch
  /\ LET id == Len(handlers) + 1
         query == BackQueryOf(in.data.query)
         hash == hashOf(query)
         loc == [hash |-> hash, query |-> query, obj |-> queriesObj,
                 opts |-> QuerySearchOpts(playlists, query),
                 results |-> <<>>, ver |-> 0, stamp |-> 0,
                 expect |-> IF hash \in DOMAIN completed THEN completed[hash] ELSE 0,
                 after |-> Responded, clean |-> TRUE, calls |-> 0, served |-> 0]
     IN IF CacheHit(hash)
        THEN /\ handlers' = Append(handlers,
                   Handler(in.kind, ch, "done", in.data,
                           [loc EXCEPT !.served = queries[hash].stamp]))
             /\ sent' = Append(sent, LookupResponse(in.kind, ch, id, in.data, queries[hash]))
             /\ completed' = Completing(hash, queries[hash].stamp)
             /\ UNCHANGED nComputed
        ELSE /\ handlers' = Append(handlers,
                   Handler(in.kind, ch, "await_findGames", in.data,
                           [loc EXCEPT !.stamp = nComputed + 1, !.calls = 1]))
             /\ nComputed' = nComputed + 1
             /\ UNCHANGED <<sent, completed>>
  /\ UNCHANGED <<unhandled, games, dbVersion, pending, uuids, queries, queriesObj>>
  /\ UNCHANGED nonCacheVars

\* The store runs the findGames call of a suspended lookup.
StoreFindGames(h) ==
  /\ InFlight(h)
  /\ handlers[h].pc = "await_findGames"
  /\ handlers' = [handlers EXCEPT
        ![h].pc = "got_findGames",
        ![h].loc.results = FindGames(games, SearchFilterOpts(handlers[h].loc.opts)),
        ![h].loc.ver = dbVersion]
  /\ UNCHANGED <<sent, unhandled, cacheVars>>
  /\ UNCHANGED nonCacheVars

\* The lookup resumes after its await: the entry is stored and the response sent.
LookupResume(h) ==
  /\ InFlight(h)
  /\ handlers[h].pc = "got_findGames"
  /\ LET me == handlers[h]
         cache == QueryGames(me.loc.query, me.loc.results, me.loc.stamp, me.loc.ver)
     IN /\ queries' = PutQuery(me.loc.obj, me.loc.hash, cache)
        /\ sent' = Append(sent, LookupResponse(me.kind, me.ch, h, me.arg, cache))
        /\ handlers' = [handlers EXCEPT ![h].pc = "done", ![h].loc.served = cache.stamp]
        /\ completed' = IF me.loc.clean THEN Completing(me.loc.hash, cache.stamp)
                        ELSE completed
  /\ UNCHANGED <<unhandled, games, dbVersion, pending, uuids, queriesObj, nComputed>>
  /\ UNCHANGED nonCacheVars

----------------------------------------------------------------------------
(* save-entry, delete-entry, duplicate-entry *)

\* A write handed to the catalog store: updateGame(game) or
\* removeGameAndAddApps(game.id).  awaited: whether the handler awaits it.
StoreWrite(by, remove, game, awaited) ==
  [by |-> by, remove |-> remove, game |-> game, awaited |-> awaited]

\* The catalog after the store has applied a write.
ApplyWrite(cat, op) ==
  IF op.remove
  THEN [id \in DOMAIN cat \ {op.game.id} |-> cat[id]]
  ELSE [id \in DOMAIN cat \cup {op.game.id} |-> IF id = op.game.id THEN op.game ELSE cat[id]]

\* The stamps of the entries the cache holds (bookkeeping).
CachedStamps == {queries[k].stamp : k \in DOMAIN queries}

\* threw: whether a call of the image copying has thrown (bookkeeping).
MutatingLoc == [preMut |-> CachedStamps, appliedVer |-> 0, mutated |-> FALSE, threw |-> FALSE]

\* save-entry arrives: updateGame(reqData.game) is called and awaited.
SaveGameStart(ch, game) ==
  /\ CanDispatch
  /\ LET id == Len(handlers) + 1
     IN /\ handlers' = Append(Tainted(handlers),
              Handler("SAVE_GAME", ch, "await_updateGame",
                      [game |-> game, library |-> game.library],
                      [MutatingLoc EXCEPT !.mutated = TRUE]))
        /\ pending' = pending \cup {StoreWrite(id, FALSE, game, TRUE)}
  /\ completed' = <<>>
  /\ UNCHANGED <<sent, unhandled, games, dbVersion, uuids, queries, queriesObj, nComputed>>
  /\ UNCHANGED nonCacheVars

\* delete-entry arrives: removeGameAndAddApps(reqData.id) is called and awaited.
DeleteGameStart(ch, gameId) ==
  /\ CanDispatch
  /\ LET id == Len(handlers) + 1
     IN /\ handlers' = Append(Tainted(handlers),
              Handler("DELETE_GAME", ch, "await_removeGame", [id |-> gameId],
                      [MutatingLoc EXCEPT !.mutated = TRUE]))
        /\ pending' = pending \cup {StoreWrite(id, TRUE, [id |-> gameId], TRUE)}
  /\ completed' = <<>>
  /\ UNCHANGED <<sent, unhandled, games, dbVersion, uuids, queries, queriesObj, nComputed>>
  /\ UNCHANGED nonCacheVars

\* The store applies a write it was handed.
StoreApply(op) ==
  /\ op \in pending
  /\ pending' = pending \ {op}
  /\ games' = ApplyWrite(games, op)
  /\ dbVersion' = dbVersion + 1
  /\ handlers' = [Tainted(handlers) EXCEPT ![op.by].loc.appliedVer = dbVersion + 1]
  /\ completed' = <<>>
  /\ UNCHANGED <<sent, unhandled, uuids, queries, queriesObj, nComputed>>
  /\ UNCHANGED nonCacheVars

\* save-entry and delete-entry resume after their awaited write: the cache is
\* cleared and countGames is called inside the response being built.
SaveGameResume(h) ==
  /\ InFlight(h)
  /\ handlers[h].kind = "SAVE_GAME"
  /\ handlers[h].pc = "await_updateGame"
  /\ \A op \in pending : op.by # h
  /\ queries' = ClearCache.map
  /\ queriesObj' = ClearCache.obj
  /\ handlers' = [Tainted(handlers) EXCEPT ![h].pc = "await_countGames"]
  /\ completed' = <<>>
  /\ UNCHANGED <<sent, unhandled, games, dbVersion, pending, uuids, nComputed>>
  /\ UNCHANGED nonCacheVars

DeleteGameResume(h) ==
  /\ InFlight(h)
  /\ handlers[h].kind = "DELETE_GAME"
  /\ handlers[h].pc = "await_removeGame"
  /\ \A op \in pending : op.by # h
  /\ queries' = ClearCache.map
  /\ queriesObj' = ClearCache.obj
  /\ handlers' = [Tainted(handlers) EXCEPT ![h].pc = "await_countGames"]
  /\ completed' = <<>>
  /\ UNCHANGED <<sent, unhandled, games, dbVersion, pending, uuids, nComputed>>
  /\ UNCHANGED nonCacheVars

\* duplicate-entry arrives: findGame(req.data.id) is called and awaited.
DuplicateGameStart(ch, gameId, dupeImages) ==
  /\ CanDispatch
  /\ handlers' = Append(Tainted(handlers),
        Handler("DUPLICATE_GAME", ch, "await_findGame",
                [id |-> gameId, dupeImages |-> dupeImages], MutatingLoc))
  /\ completed' = <<>>
  /\ UNCHANGED <<sent, unhandled, games, dbVersion, pending, uuids, queries, queriesObj,
                 nComputed>>
  /\ UNCHANGED nonCacheVars

\* duplicate-entry resumes with the game found (or undefined).  With a game,
\* the copy gets a new id and updateGame(newGame) is called without being
\* awaited; then the images are copied when asked for, else the cache is
\* cleared at once.  Without a game only countGames is called.
DuplicateGameFound(h) ==
  /\ InFlight(h)
  /\ handlers[h].kind = "DUPLICATE_GAME"
  /\ handlers[h].pc = "await_findGame"
  /\ completed' = <<>>
  /\ IF handlers[h].arg.id \in DOMAIN games
     THEN LET game == games[handlers[h].arg.id]
              newGame == [game EXCEPT !.id = uuid(uuids + 1)]
          IN /\ uuids' = uuids + 1
             /\ pending' = pending \cup {StoreWrite(h, FALSE, newGame, FALSE)}
             /\ IF handlers[h].arg.dupeImages
                THEN /\ handlers' = [Tainted(handlers) EXCEPT
                           ![h].pc = "logo_pathExists", ![h].loc.mutated = TRUE]
                     /\ UNCHANGED <<queries, queriesObj>>
                ELSE /\ handlers' = [Tainted(handlers) EXCEPT
                           ![h].pc = "await_countGames", ![h].loc.mutated = TRUE]
                     /\ queries' = ClearCache.map
                     /\ queriesObj' = ClearCache.obj
     ELSE /\ handlers' = [Tainted(handlers) EXCEPT ![h].pc = "await_countGames"]
          /\ UNCHANGED <<pending, uuids, queries, queriesObj>>
  /\ UNCHANGED <<sent, unhandled, games, dbVersion, nComputed>>
  /\ UNCHANGED nonCacheVars

\* Outcomes of a filesystem call: a value, or an error thrown.
FsValues == {"true", "false"}

FsOutcomes == FsValues \cup {"throws"}

\* The image copying without its try blocks: an error leaves the handler.
ImageNextUncaught(pc, outcome) ==
  IF outcome = "throws"
  THEN "rejected"
  ELSE CASE pc = "logo_pathExists" -> IF outcome = "true" THEN "logo_mkdir" ELSE "shot_pathExists"
         [] pc = "logo_mkdir"      -> "logo_copyFile"
         [] pc = "logo_copyFile"   -> "shot_pathExists"
         [] pc = "shot_pathExists" -> IF outcome = "true" THEN "shot_mkdir" ELSE "images_done"
         [] pc = "shot_mkdir"      -> "shot_copyFile"
         [] pc = "shot_copyFile"   -> "images_done"

\* Where the image copying goes next from an await, given the call's outcome:
\* pathExists true leads to mkdir, mkdir to copyFile; a false pathExists and
\* every caught error skip to the next image.
ImageNext(pc, outcome) ==
  CASE pc = "logo_pathExists" -> IF outcome = "true" THEN "logo_mkdir" ELSE "shot_pathExists"
    [] pc = "logo_mkdir"      -> IF outcome = "throws" THEN "shot_pathExists" ELSE "logo_copyFile"
    [] pc = "logo_copyFile"   -> "shot_pathExists"
    [] pc = "shot_pathExists" -> IF outcome = "true" THEN "shot_mkdir" ELSE "images_done"
    [] pc = "shot_mkdir"      -> IF outcome = "throws" THEN "images_done" ELSE "shot_copyFile"
    [] pc = "shot_copyFile"   -> "images_done"

ImagePcs == {"logo_pathExists", "logo_mkdir", "logo_copyFile",
             "shot_pathExists", "shot_mkdir", "shot_copyFile"}

\* duplicate-entry resumes from an await of its image copying; after the last
\* one the cache is cleared and countGames is called.
DuplicateGameImages(h, outcome) ==
  /\ InFlight(h)
  /\ handlers[h].pc \in ImagePcs
  /\ completed' = <<>>
  /\ LET next == ImageNext(handlers[h].pc, outcome)
     IN IF next = "images_done"
        THEN /\ handlers' = [Tainted(handlers) EXCEPT
                   ![h].pc = "await_countGames",
                   ![h].loc.threw = @ \/ outcome = "throws"]
             /\ queries' = ClearCache.map
             /\ queriesObj' = ClearCache.obj
        ELSE /\ handlers' = [Tainted(handlers) EXCEPT
                   ![h].pc = next, ![h].loc.threw = @ \/ outcome = "throws"]
             /\ UNCHANGED <<queries, queriesObj>>
  /\ UNCHANGED <<sent, unhandled, games, dbVersion, pending, uuids, nComputed>>
  /\ UNCHANGED nonCacheVars

\* The library field of the BROWSE_CHANGE response.
BrowseChangeLibrary(me) == IF me.kind = "SAVE_GAME" THEN me.arg.library ELSE None

\* A mutating handler resumes with the store's count and sends its response.
BrowseChangeRespond(h) ==
  /\ InFlight(h)
  /\ handlers[h].kind \in MutatingKinds
  /\ handlers[h].pc = "await_countGames"
  /\ sent' = Append(sent, Envelope(handlers[h].ch, h, "BROWSE_CHANGE",
                 [library |-> BrowseChangeLibrary(handlers[h]),
                  gamesTotal |-> CountGames(games)]))
  /\ handlers' = [Tainted(handlers) EXCEPT ![h].pc = "done"]
  /\ completed' = <<>>
  /\ UNCHANGED <<unhandled, games, dbVersion, pending, uuids, queries, queriesObj, nComputed>>
  /\ UNCHANGED nonCacheVars

----------------------------------------------------------------------------
(* Failing collaborators *)

\* The awaits of the cache handlers that sit in no try block.
UncaughtAwaits == {"await_findGames", "await_findGame", "await_countGames"}

\* The awaited call of a suspended handler fails: the error leaves the handler.
AwaitRejects(h) ==
  /\ InFlight(h)
  /\ handlers[h].pc \in UncaughtAwaits
  /\ handlers' = [handlers EXCEPT ![h].pc = "rejected"]
  /\ UNCHANGED <<sent, unhandled, cacheVars>>
  /\ UNCHANGED nonCacheVars

\* The store fails a write: the handler awaiting it is left by the error; a
\* write nobody awaits is an unhandled rejection.
StoreReject(op) ==
  /\ op \in pending
  /\ pending' = pending \ {op}
  /\ IF op.awaited
     THEN /\ handlers' = [handlers EXCEPT ![op.by].pc = "rejected"]
          /\ UNCHANGED unhandled
     ELSE /\ unhandled' = unhandled + 1
          /\ UNCHANGED handlers
  /\ UNCHANGED <<sent, games, dbVersion, uuids, queries, queriesObj, nComputed, completed>>
  /\ UNCHANGED nonCacheVars

----------------------------------------------------------------------------
(* The cache handlers running against the catalog store.  In SpecCache the
   store and the filesystem answer every call; SpecCacheFaults and
   SpecDuplicate let them fail. *)

\* The entry an earlier browse of QueryArcade left in the cache.
WarmEntry ==
  QueryGames(BackQueryOf(QueryArcade),
             FindGames(InitialGames,
                       SearchFilterOpts(QuerySearchOpts(CachePlaylists, BackQueryOf(QueryArcade)))),
             1, 0)

\* The cache starts empty, or warm: holding the entry of one earlier lookup.
InitCache ==
  /\ handlers = <<>>
  /\ sent = <<>>
  /\ unhandled = 0
  /\ back = InitialBack
  /\ init = NoInit
  /\ listeners = <<>>
  /\ files = <<>>
  /\ playlists = CachePlaylists
  /\ dif = NoDif
  /\ lookup = NoLookup
  /\ games = InitialGames
  /\ dbVersion = 0
  /\ pending = {}
  /\ uuids = 0
  /\ queriesObj = 0
  /\ \/ /\ queries = EmptyCache
        /\ nComputed = 0
        /\ completed = <<>>
     \/ /\ queries = (hashOf(BackQueryOf(QueryArcade)) :> WarmEntry)
        /\ nComputed = 1
        /\ completed = (hashOf(BackQueryOf(QueryArcade)) :> 1)

\* The channel the requests of the cache handlers arrive on.
CacheChannels == {"c1"}

NextCache ==
  \/ \E ch \in CacheChannels, in \in LookupInputs : LookupStart(ch, in)
  \/ \E h \in RequestIds : StoreFindGames(h)
  \/ \E h \in RequestIds : LookupResume(h)
  \/ \E ch \in CacheChannels, game \in SaveInputs : SaveGameStart(ch, game)
  \/ \E ch \in CacheChannels, id \in DeleteInputs : DeleteGameStart(ch, id)
  \/ \E ch \in CacheChannels, in \in DuplicateInputs :
       DuplicateGameStart(ch, in.id, in.dupeImages)
  \/ \E op \in pending : StoreApply(op)
  \/ \E h \in RequestIds : SaveGameResume(h)
  \/ \E h \in RequestIds : DeleteGameResume(h)
  \/ \E h \in RequestIds : DuplicateGameFound(h)
  \/ \E h \in RequestIds, outcome \in FsValues : DuplicateGameImages(h, outcome)
  \/ \E h \in RequestIds : BrowseChangeRespond(h)

SpecCache == InitCache /\ [][NextCache]_vars

\* The same handlers with collaborators that may fail: the store, and the
\* filesystem calls of the image copying.
NextCacheFaults ==
  \/ NextCache
  \/ \E h \in RequestIds : AwaitRejects(h)
  \/ \E op \in pending : StoreReject(op)
  \/ \E h \in RequestIds : DuplicateGameImages(h, "throws")

SpecCacheFaults == InitCache /\ [][NextCacheFaults]_vars

----------------------------------------------------------------------------
(* Invalidation and idempotent hits *)

IsLookup(h) == h \in 1..Len(handlers) /\ handlers[h].kind \in LookupKinds

C2_NoStaleEntryOutlivesMutation ==
  \A m \in Responded :
    \A k \in DOMAIN queries :
      /\ handlers[m].loc.appliedVer # 0
      /\ queries[k].ver >= handlers[m].loc.appliedVer

\* C3: a lookup of a query whose earlier lookup completed, with no step of a
\* mutating request since that lookup began, makes no queryGames call and is
\* answered from the entry the earlier lookup left.
C3_IdempotentCacheHit ==
  \A h \in 1..Len(handlers) :
    IsLookup(h) /\ handlers[h].loc.expect # 0 =>
      /\ handlers[h].loc.calls = 0
      /\ handlers[h].pc = "done"
      /\ handlers[h].loc.served = handlers[h].loc.expect

\* C3 witness: two lookups of one query, the first a miss that completed, the
\* second served its entry; queryGames ran once.
C3_Witness ==
  \E h1 \in 1..Len(handlers), h2 \in 1..Len(handlers) :
    /\ h1 < h2
    /\ IsLookup(h1) /\ IsLookup(h2)
    /\ handlers[h1].loc.hash = handlers[h2].loc.hash
    /\ handlers[h1].loc.calls = 1
    /\ handlers[h1].pc = "done"
    /\ handlers[h2].loc.expect = handlers[h1].loc.served
    /\ handlers[h2].loc.calls = 0
    /\ handlers[h2].pc = "done"
    /\ nComputed = 1

----------------------------------------------------------------------------
(* listen-for-init-milestones *)

\* The keys of state.init, in the order for..in visits them.
BackInit == <<"GAMES", "PLAYLISTS", "EXEC">>

BackInitKeys == {BackInit[i] : i \in 1..Len(BackInit)}

\* Every key of state.init, whatever its value.
InitKeysAll(flag) == BackInit

\* The keys of state.init whose value is flag, in key order.
InitKeys(flag) ==
  LET F[i \in 0..Len(BackInit)] ==
        IF i = 0 THEN <<>>
        ELSE IF init[BackInit[i]] = flag THEN Append(F[i - 1], BackInit[i]) ELSE F[i - 1]
  IN F[Len(BackInit)]

\* A listener whose callback names the last key of the loop.
InitListenerLastKey(target, key) ==
  [event |-> key, target |-> target, done |-> <<BackInit[Len(BackInit)]>>]

\* state.initEmitter.once(init, () => respond(event.target, {id: '', done: [init]}))
InitListener(target, key) == [event |-> key, target |-> target, done |-> <<key>>]

\* The envelope a listener sends when it is called.
InitListenerEnvelope(l) == Envelope(l.target, EmptyId, "INIT_EVENT", [done |-> l.done])

\* listen-for-init-milestones: the milestones done are listed in the
\* response, a once-listener is registered for every other one.
InitListen(ch) ==
  /\ CanDispatch
  /\ LET id == Len(handlers) + 1
         waiting == InitKeys(FALSE)
     IN /\ listeners' = listeners \o [i \in 1..Len(waiting) |-> InitListener(ch, waiting[i])]
        /\ sent' = Append(sent, Envelope(ch, id, "INIT_EVENT", [done |-> InitKeys(TRUE)]))
        /\ handlers' = Append(handlers,
              Handler("INIT_LISTEN", ch, "done", <<>>,
                      [pendingAt |-> {k \in BackInitKeys : ~init[k]}]))
  /\ UNCHANGED <<unhandled, cacheVars, init, files, playlists, dif, lookup, back>>

\* The listeners of event key, in registration order, and the others.
ListenersOf(key) == SelectSeq(listeners, LAMBDA l : l.event = key)

ListenersNotOf(key) == SelectSeq(listeners, LAMBDA l : l.event # key)

\* A milestone completes: state.init[key] is set and the event emitted; every
\* once-listener of the event is removed and called.
CompleteMilestone(key) ==
  /\ ~init[key]
  /\ init' = [init EXCEPT ![key] = TRUE]
  /\ sent' = sent \o [i \in 1..Len(ListenersOf(key)) |-> InitListenerEnvelope(ListenersOf(key)[i])]
  /\ listeners' = ListenersNotOf(key)
  /\ UNCHANGED <<handlers, unhandled, cacheVars, files, playlists, dif, lookup, back>>

InitMilestones ==
  /\ handlers = <<>>
  /\ sent = <<>>
  /\ unhandled = 0
  /\ back = InitialBack
  /\ games = InitialGames
  /\ dbVersion = 0
  /\ pending = {}
  /\ uuids = 0
  /\ queriesObj = 0
  /\ queries = EmptyCache
  /\ nComputed = 0
  /\ completed = <<>>
  /\ init = [k \in BackInitKeys |-> FALSE]
  /\ listeners = <<>>
  /\ files = <<>>
  /\ playlists = <<>>
  /\ dif = NoDif
  /\ lookup = NoLookup

NextMilestones ==
  \/ \E ch \in Channels : InitListen(ch)
  \/ \E key \in BackInitKeys : CompleteMilestone(key)

SpecMilestones == InitMilestones /\ [][NextMilestones]_vars

\* The unsolicited INIT_EVENT envelopes sent to ch that name exactly key.
Notifications(ch, key) ==
  {i \in 1..Len(sent) :
     /\ sent[i].type = "INIT_EVENT"
     /\ sent[i].id = EmptyId
     /\ sent[i].to = ch
     /\ sent[i].data.done = <<key>>}

\* The listen requests made on ch while key was pending.
ListenedPending(ch, key) ==
  {h \in 1..Len(handlers) :
     /\ handlers[h].kind = "INIT_LISTEN"
     /\ handlers[h].ch = ch
     /\ key \in handlers[h].loc.pendingAt}

\* C6: each listen request made while a milestone is pending causes exactly
\* one unsolicited notification naming that milestone, sent to the requesting
\* channel when the milestone completes and none before or after; a request
\* made after the milestone is done causes none, the milestone being listed in
\* the done list of its response.
C6_OneShotMilestoneNotification ==
  /\ \A ch \in Channels, key \in BackInitKeys :
       Cardinality(Notifications(ch, key)) =
         IF init[key] THEN Cardinality(ListenedPending(ch, key)) ELSE 0
  /\ \A i \in 1..Len(sent) :
       sent[i].type = "INIT_EVENT" =>
         IF sent[i].id = EmptyId
         THEN \E key \in BackInitKeys : sent[i].data.done = <<key>>
         ELSE /\ handlers[sent[i].id].kind = "INIT_LISTEN"
              /\ {sent[i].data.done[j] : j \in 1..Len(sent[i].data.done)} =
                   BackInitKeys \ handlers[sent[i].id].loc.pendingAt

\* C6 witness: one request listened with GAMES done and PLAYLISTS pending;
\* PLAYLISTS completed and was notified once, GAMES never.
C6_Witness ==
  \E h \in 1..Len(handlers) :
    /\ handlers[h].kind = "INIT_LISTEN"
    /\ handlers[h].loc.pendingAt = {"PLAYLISTS", "EXEC"}
    /\ init["PLAYLISTS"]
    /\ Cardinality(Notifications(handlers[h].ch, "PLAYLISTS")) = 1
    /\ Cardinality(Notifications(handlers[h].ch, "GAMES")) = 0
    /\ Len(handlers) = 1

----------------------------------------------------------------------------
(* Failing collaborators and the correlated response *)

\* C5: every request that has left its handler has been answered exactly once
\* with its id, also when a collaborator failed: no failure leaves a handler
\* as an error and none is left unhandled.
C5_OneResponseDespiteFailure ==
  /\ unhandled = 0
  /\ \A h \in 1..Len(handlers) :
       /\ handlers[h].pc # "rejected"
       /\ handlers[h].pc = "done" =>
            Cardinality({i \in 1..Len(sent) : sent[i].id = h}) = 1

----------------------------------------------------------------------------
(* File names: the string operations of save-playlist *)

DigitChars == <<"0", "1", "2", "3", "4", "5", "6", "7", "8", "9">>

IsDigit(c) == \E i \in 1..Len(DigitChars) : DigitChars[i] = c

DigitValue(c) == (CHOOSE i \in 1..Len(DigitChars) : DigitChars[i] = c) - 1

\* `${n}`: the decimal digits of a number.
RECURSIVE NumberToString(_)
NumberToString(n) ==
  IF n < 10 THEN <<DigitChars[n + 1]>>
  ELSE Append(NumberToString(n \div 10), DigitChars[(n % 10) + 1])

\* parseInt: leading spaces are skipped, then the digits are read.
RECURSIVE parseInt(_)
parseInt(s) ==
  IF s # <<>> /\ s[1] = " " THEN parseInt(Tail(s))
  ELSE LET D[i \in 0..Len(s)] ==
             IF i = 0 THEN 0
             ELSE IF \A j \in 1..i : IsDigit(s[j]) THEN D[i - 1] * 10 + DigitValue(s[i])
             ELSE D[i - 1]
       IN D[Len(s)]

\* s.lastIndexOf(c), counted from 0; -1 when c is not in s.
lastIndexOf(s, c) ==
  LET hits == {i \in 1..Len(s) : s[i] = c}
  IN IF hits = {} THEN -1 ELSE (CHOOSE i \in hits : \A j \in hits : j <= i) - 1

\* s.substr(start, length): at most length characters from start on.
substr(s, start, length) ==
  SubSeq(s, start + 1, IF start + length < Len(s) THEN start + length ELSE Len(s))

endsWith(s, c) == s # <<>> /\ s[Len(s)] = c

\* s.match(/ \d+$/): the index (from 0) of the space the match begins at, -1
\* when s does not end in a space followed by digits.
MatchNumber(s) ==
  LET k == CHOOSE i \in 0..Len(s) :
             /\ \A j \in (Len(s) - i + 1)..Len(s) : IsDigit(s[j])
             /\ (i < Len(s) => ~IsDigit(s[Len(s) - i]))
  IN IF k >= 1 /\ k < Len(s) /\ s[Len(s) - k] = " " THEN Len(s) - k - 1 ELSE -1

\* The characters a file name may not hold.
IllegalChars == {"/", "?", "<", ">", ":", "*", "|"}

sanitizeFilename(s) == SelectSeq(s, LAMBDA c : c \notin IllegalChars)

----------------------------------------------------------------------------
(* save-playlist and delete-playlist *)

Foo == <<"F", "o", "o">>

DotJson == <<".", "j", "s", "o", "n">>

FooJson == Foo \o DotJson

OldJson == <<"O", "l", "d">> \o DotJson

\* The file the folder holds for a playlist and its entry in state.playlists.
PlaylistOf(filename) == [filename |-> filename, title |-> <<>>]

\* A playlist folder holding the given file names.
FolderOf(names) == [name \in names |-> PlaylistOf(name)]

\* PlaylistFile.saveFile(path.join(folder, name), playlist)
SaveFile(folder, name, playlist) ==
  [k \in DOMAIN folder \cup {name} |-> IF k = name THEN playlist ELSE folder[k]]

\* unlink(path.join(folder, name))
Unlink(folder, name) == [k \in DOMAIN folder \ {name} |-> folder[k]]

\* req.data.playlist.filename || `${req.data.playlist.title}.json`, sanitized
DesiredFilename(playlist) ==
  sanitizeFilename(IF playlist.filename # <<>> THEN playlist.filename
                   ELSE playlist.title \o DotJson)

\* The file name split at its last dot into "name" and "extension".
SplitFilename(filename) ==
  LET dotIndex == lastIndexOf(filename, ".")
  IN IF dotIndex >= 0
     THEN <<substr(filename, 0, dotIndex), substr(filename, dotIndex, Len(filename))>>
     ELSE <<filename>>

\* The number extracted from the last part: the number to try first and the
\* parts with the number removed.
ExtractNumber(parts) ==
  LET last == parts[Len(parts)]
      at == MatchNumber(last)
  IN IF at >= 0
     THEN [n |-> parseInt(substr(last, at, Len(last))) + 1,
           parts |-> [parts EXCEPT ![Len(parts)] = substr(last, 0, at)]]
     ELSE [n |-> 2, parts |-> parts]

\* The space added between "name" and "number".
AddSpace(parts) ==
  IF Len(parts) > 1 /\ Len(parts[1]) > 0 /\ ~endsWith(parts[1], " ")
  THEN [parts EXCEPT ![1] = parts[1] \o <<" ">>]
  ELSE parts

\* The parts and the first number of the probing loop for a taken file name.
ProbeSetup(filename) ==
  LET x == ExtractNumber(SplitFilename(filename))
  IN [n |-> x.n, parts |-> AddSpace(x.parts)]

\* `${parts[0] || ''}${n}${parts[1] || ''}`
Candidate(parts, n) ==
  parts[1] \o NumberToString(n) \o (IF Len(parts) > 1 THEN parts[2] ELSE <<>>)

\* The loop runs while n is below this number.
ProbeLimit == 100

\* A save that found every name taken keeps the last name it tried.
CoolFilenameKept(foundName, str) == str

\* The file name to save under once the probing is over: '' aborts the save.
CoolFilename(foundName, str) == IF foundName THEN str ELSE <<>>

\* deletePlaylist: the file it unlinks, none when the id is empty, names no
\* playlist of the list, or leads out of the folder.
DeletePlaylistTarget(id, list) ==
  LET found == {i \in 1..Len(list) : list[i].filename = id}
  IN IF id # <<>> /\ found # {} /\ \A i \in 1..Len(id) : id[i] # "/"
     THEN <<id>> ELSE <<>>

GenericResponse(me, id) == Envelope(me.ch, id, "GENERIC_RESPONSE", None)

\* The sent envelopes once handler record me has taken its step: its response
\* is sent when the step ends the handler.
SentAfter(me, id) == IF me.pc = "done" THEN Append(sent, GenericResponse(me, id)) ELSE sent

\* if (coolFilename) { await saveFile(...) ... } respond(...)
AfterProbing(me) ==
  IF me.loc.coolFilename # <<>> THEN [me EXCEPT !.pc = "await_saveFile"]
  ELSE [me EXCEPT !.pc = "done"]

\* The test of the probing loop: the next name is probed, or the loop ends
\* with no name found.
LoopTest(me) ==
  IF me.loc.n < ProbeLimit
  THEN [me EXCEPT !.pc = "await_pathExists_str",
                  !.loc.str = Candidate(me.loc.parts, me.loc.n),
                  !.loc.n = me.loc.n + 1]
  ELSE AfterProbing([me EXCEPT !.loc.coolFilename = CoolFilename(FALSE, me.loc.str)])

\* The old file is deleted after every save that names one.
AfterSaveInPlaceToo(me) ==
  IF me.arg.prevFilename # <<>>
       /\ DeletePlaylistTarget(me.arg.prevFilename, playlists) # <<>>
  THEN [me EXCEPT !.pc = "await_unlink",
                  !.loc.target = DeletePlaylistTarget(me.arg.prevFilename, playlists)[1]]
  ELSE [me EXCEPT !.pc = "done"]

\* After the playlist is saved: the old file of a renamed playlist is deleted.
AfterSave(me) ==
  IF me.pc = "await_saveFile" /\ me.arg.prevFilename # <<>>
       /\ DeletePlaylistTarget(me.arg.prevFilename, playlists) # <<>>
  THEN [me EXCEPT !.pc = "await_unlink",
                  !.loc.target = DeletePlaylistTarget(me.arg.prevFilename, playlists)[1]]
  ELSE [me EXCEPT !.pc = "done"]

\* A save-playlist request arrives.
SavePlaylistStart(ch, data, limit) ==
  /\ Len(handlers) < limit
  /\ LET id == Len(handlers) + 1
         filename == DesiredFilename(data.playlist)
         loc == [filename |-> filename, coolFilename |-> filename, str |-> filename,
                 parts |-> <<>>, n |-> 0, target |-> <<>>,
                 taken |-> FALSE, probes |-> <<>>, wrote |-> <<>>, unlinked |-> FALSE,
                 full |-> /\ filename \in DOMAIN files
                          /\ \A k \in 2..(ProbeLimit - 1) :
                               Candidate(ProbeSetup(filename).parts, k) \in DOMAIN files]
         me == Handler("SAVE_PLAYLIST", ch,
                       IF filename = <<>> THEN "done"
                       ELSE IF data.prevFilename = filename THEN "await_saveFile_existing"
                       ELSE "await_pathExists",
                       data, loc)
     IN /\ handlers' = Append(handlers, me)
        /\ sent' = SentAfter(me, id)
  /\ UNCHANGED <<unhandled, cacheVars, init, listeners, files, playlists, dif, lookup, back>>

\* The handler resumes with the answer whether the desired name exists.
SavePlaylistExists(h) ==
  /\ InFlight(h)
  /\ handlers[h].pc = "await_pathExists"
  /\ LET me == handlers[h]
         setup == ProbeSetup(me.loc.filename)
         next == IF me.loc.filename \in DOMAIN files
                 THEN LoopTest([me EXCEPT !.loc.taken = TRUE,
                                          !.loc.parts = setup.parts,
                                          !.loc.n = setup.n])
                 ELSE AfterProbing(me)
     IN /\ handlers' = [handlers EXCEPT ![h] = next]
        /\ sent' = SentAfter(next, h)
  /\ UNCHANGED <<unhandled, cacheVars, init, listeners, files, playlists, dif, lookup, back>>

\* The handler resumes with the answer whether the probed name exists.
SavePlaylistProbed(h) ==
  /\ InFlight(h)
  /\ handlers[h].pc = "await_pathExists_str"
  /\ LET me == [handlers[h] EXCEPT !.loc.probes = Append(@, handlers[h].loc.str)]
         next == IF me.loc.str \in DOMAIN files
                 THEN LoopTest(me)
                 ELSE AfterProbing([me EXCEPT !.loc.coolFilename = CoolFilename(TRUE, me.loc.str)])
     IN /\ handlers' = [handlers EXCEPT ![h] = next]
        /\ sent' = SentAfter(next, h)
  /\ UNCHANGED <<unhandled, cacheVars, init, listeners, files, playlists, dif, lookup, back>>

\* The playlist file is written and the handler resumes.
SavePlaylistSaved(h) ==
  /\ InFlight(h)
  /\ handlers[h].pc \in {"await_saveFile", "await_saveFile_existing"}
  /\ LET me == [handlers[h] EXCEPT !.loc.wrote = <<handlers[h].loc.coolFilename>>]
         next == AfterSave(me)
     IN /\ files' = SaveFile(files, me.loc.coolFilename, me.arg.playlist)
        /\ handlers' = [handlers EXCEPT ![h] = next]
        /\ sent' = SentAfter(next, h)
  /\ UNCHANGED <<unhandled, cacheVars, init, listeners, playlists, dif, lookup, back>>

\* PlaylistFile.saveFile fails: the error leaves the handler.
SavePlaylistRejects(h) ==
  /\ InFlight(h)
  /\ handlers[h].pc \in {"await_saveFile", "await_saveFile_existing"}
  /\ handlers' = [handlers EXCEPT ![h].pc = "rejected"]
  /\ UNCHANGED <<sent, unhandled, cacheVars, nonCacheVars>>

\* A delete-playlist request arrives.
DeletePlaylistStart(ch, id, limit) ==
  /\ Len(handlers) < limit
  /\ LET target == DeletePlaylistTarget(id, playlists)
         me == Handler("DELETE_PLAYLIST", ch,
                       IF target # <<>> THEN "await_unlink" ELSE "done",
                       id,
                       [target |-> IF target # <<>> THEN target[1] ELSE <<>>,
                        unlinked |-> FALSE])
     IN /\ handlers' = Append(handlers, me)
        /\ sent' = SentAfter(me, Len(handlers) + 1)
  /\ UNCHANGED <<unhandled, cacheVars, init, listeners, files, playlists, dif, lookup, back>>

\* unlink settles: the file is removed and the handler responds; unlink of a
\* file that is not there fails, and the error leaves the handler.
PlaylistUnlinked(h) ==
  /\ InFlight(h)
  /\ handlers[h].pc = "await_unlink"
  /\ LET me == handlers[h]
         next == IF me.loc.target \in DOMAIN files
                 THEN [me EXCEPT !.pc = "done", !.loc.unlinked = TRUE]
                 ELSE [me EXCEPT !.pc = "rejected"]
     IN /\ files' = Unlink(files, me.loc.target)
        /\ handlers' = [handlers EXCEPT ![h] = next]
        /\ sent' = SentAfter(next, h)
  /\ UNCHANGED <<unhandled, cacheVars, init, listeners, playlists, dif, lookup, back>>

----------------------------------------------------------------------------
(* The playlist handlers running against a playlist folder *)

\* "Foo 2.json", "Foo 98", "Foo99"
Foo2Json == Foo \o <<" ", "2">> \o DotJson

Foo98 == Foo \o <<" ", "9", "8">>

Foo99 == Foo \o <<"9", "9">>

\* The folders the handlers start with.
Folders ==
  { FolderOf({OldJson}),
    FolderOf({FooJson, Foo2Json, OldJson}),
    FolderOf({Foo, Foo98, Foo99, OldJson}) }

\* state.playlists as the folder watcher loaded it from folder.
PlaylistsOf(folder) ==
  LET names == DOMAIN folder
      F[S \in SUBSET names] ==
        IF S = {} THEN <<>>
        ELSE LET x == CHOOSE x \in S : TRUE IN Append(F[S \ {x}], folder[x])
  IN F[names]

SavePlaylist(filename, title, prevFilename) ==
  [playlist |-> [filename |-> filename, title |-> title], prevFilename |-> prevFilename]

\* The save-playlist payloads: new playlists, a rename, an overwrite in place,
\* a name from the title, a name with no extension, a name of illegal characters.
SavePlaylistInputs ==
  { SavePlaylist(FooJson, <<"A">>, <<>>),
    SavePlaylist(FooJson, <<"A">>, OldJson),
    SavePlaylist(FooJson, <<"A">>, FooJson),
    SavePlaylist(Foo2Json, <<"A">>, <<>>),
    SavePlaylist(<<>>, Foo, <<>>),
    SavePlaylist(Foo, <<"A">>, <<>>),
    SavePlaylist(Foo98, <<"A">>, <<>>),
    SavePlaylist(<<"/">>, <<"A">>, <<>>) }

DeletePlaylistInputs == { OldJson, FooJson, <<>> }

InitPlaylist ==
  /\ handlers = <<>>
  /\ sent = <<>>
  /\ unhandled = 0
  /\ back = InitialBack
  /\ games = InitialGames
  /\ dbVersion = 0
  /\ pending = {}
  /\ uuids = 0
  /\ queriesObj = 0
  /\ queries = EmptyCache
  /\ nComputed = 0
  /\ completed = <<>>
  /\ init = NoInit
  /\ listeners = <<>>
  /\ dif = NoDif
  /\ lookup = NoLookup
  /\ files \in Folders
  /\ playlists = PlaylistsOf(files)

NextPlaylist ==
  \/ \E ch \in CacheChannels, data \in SavePlaylistInputs : SavePlaylistStart(ch, data, MaxRequests)
  \/ \E h \in RequestIds : SavePlaylistExists(h)
  \/ \E h \in RequestIds : SavePlaylistProbed(h)
  \/ \E h \in RequestIds : SavePlaylistSaved(h)
  \/ \E ch \in CacheChannels, id \in DeletePlaylistInputs : DeletePlaylistStart(ch, id, MaxRequests)
  \/ \E h \in RequestIds : PlaylistUnlinked(h)

SpecPlaylist == InitPlaylist /\ [][NextPlaylist]_vars

\* The same handlers with a playlist file that may fail to be written.
NextPlaylistFaults ==
  \/ NextPlaylist
  \/ \E h \in RequestIds : SavePlaylistRejects(h)

SpecPlaylistFaults == InitPlaylist /\ [][NextPlaylistFaults]_vars

\* The numbered names Foo 2.json .. Foo 99.json, and Foo2 .. Foo99.
NumberedJson(from, to) == {Foo \o <<" ">> \o NumberToString(k) \o DotJson : k \in from..to}

NumberedPlain(from, to) == {Foo \o NumberToString(k) : k \in from..to}

\* Folders where the desired name and every numbered name are taken, and
\* folders where only the last numbered name is free.
FullFolders ==
  { FolderOf({FooJson, OldJson} \cup NumberedJson(2, ProbeLimit - 1)),
    FolderOf({FooJson, OldJson} \cup NumberedJson(2, ProbeLimit - 2)),
    FolderOf({Foo, OldJson} \cup NumberedPlain(2, ProbeLimit - 1)),
    FolderOf({Foo, OldJson} \cup NumberedPlain(2, ProbeLimit - 2)) }

FullInputs ==
  { SavePlaylist(FooJson, <<"A">>, OldJson),
    SavePlaylist(Foo, <<"A">>, OldJson) }

\* The number of requests made against a full folder.
MaxFullRequests == 1

InitPlaylistFull ==
  /\ handlers = <<>>
  /\ sent = <<>>
  /\ unhandled = 0
  /\ back = InitialBack
  /\ games = InitialGames
  /\ dbVersion = 0
  /\ pending = {}
  /\ uuids = 0
  /\ queriesObj = 0
  /\ queries = EmptyCache
  /\ nComputed = 0
  /\ completed = <<>>
  /\ init = NoInit
  /\ listeners = <<>>
  /\ dif = NoDif
  /\ lookup = NoLookup
  /\ files \in FullFolders
  /\ playlists = <<PlaylistOf(OldJson)>>

NextPlaylistFull ==
  \/ \E ch \in CacheChannels, data \in FullInputs : SavePlaylistStart(ch, data, MaxFullRequests)
  \/ \E h \in 1..MaxFullRequests : SavePlaylistExists(h)
  \/ \E h \in 1..MaxFullRequests : SavePlaylistProbed(h)
  \/ \E h \in 1..MaxFullRequests : SavePlaylistSaved(h)
  \/ \E h \in 1..MaxFullRequests : PlaylistUnlinked(h)

SpecPlaylistFull == InitPlaylistFull /\ [][NextPlaylistFull]_vars

----------------------------------------------------------------------------
(* Allocation of playlist file names *)

\* The save-playlist requests that store a playlist under a new name.
SavesAsNew ==
  {h \in 1..Len(handlers) :
     /\ handlers[h].kind = "SAVE_PLAYLIST"
     /\ handlers[h].arg.prevFilename # handlers[h].loc.filename}

\* C7: a playlist stored under a new name is written under the desired name
\* when that name is free, and otherwise under the first free name
\* '<stem> <N><extension>' with N counted upward from 2.
C7_FirstFreeNumberedName ==
  \A h \in SavesAsNew :
    handlers[h].loc.wrote # <<>> =>
      LET me == handlers[h].loc
          parts == SplitFilename(me.filename)
          numbered(k) == parts[1] \o <<" ">> \o NumberToString(k)
                           \o (IF Len(parts) > 1 THEN parts[2] ELSE <<>>)
      IN IF ~me.taken THEN me.wrote[1] = me.filename
         ELSE /\ Len(me.probes) >= 1
              /\ \A i \in 1..Len(me.probes) : me.probes[i] = numbered(i + 1)
              /\ me.wrote[1] = numbered(Len(me.probes) + 1)

\* C8: when the desired name and every numbered candidate 2..99 exist, the
\* save writes no file and does not delete the file named by prevFilename.
C8_ExhaustedWritesNothing ==
  \A h \in SavesAsNew :
    handlers[h].loc.full =>
      /\ handlers[h].loc.wrote = <<>>
      /\ ~handlers[h].loc.unlinked
      /\ handlers[h].pc \notin {"await_saveFile", "await_unlink"}

\* C8 witness: a rename into a full folder probed 98 names, was answered, and
\* the old file is still there.
C8_Witness ==
  \E h \in SavesAsNew :
    /\ handlers[h].loc.full
    /\ handlers[h].pc = "done"
    /\ Len(handlers[h].loc.probes) = 98
    /\ handlers[h].arg.prevFilename = OldJson
    /\ OldJson \in DOMAIN files
    /\ \E i \in 1..Len(sent) : sent[i].id = h

\* C9: for a taken name the allocator takes a trailing ' <k>' off the stem
\* (the part before the last dot) and probes '<stem> <n><extension>' for
\* n = k+1, k+2, ... (from 2 when there is no such suffix), one space before
\* the number, only numbers below 100 and at most 98 probes.
C9_ProbesFollowTheSuffix ==
  \A h \in SavesAsNew :
    handlers[h].loc.taken =>
      LET me == handlers[h].loc
          parts == SplitFilename(me.filename)
          stem == parts[1]
          ext == IF Len(parts) > 1 THEN parts[2] ELSE <<>>
          at == MatchNumber(stem)
          base == IF at >= 0 THEN substr(stem, 0, at) ELSE stem
          first == IF at >= 0 THEN parseInt(substr(stem, at, Len(stem))) + 1 ELSE 2
      IN /\ Len(me.probes) <= 98
         /\ \A i \in 1..Len(me.probes) :
              /\ first + i - 1 < 100
              /\ me.probes[i] = base \o <<" ">> \o NumberToString(first + i - 1) \o ext

----------------------------------------------------------------------------
(* difObjects as a function of drawn arguments *)

\* The arguments are drawn; the function has not run.
InitDif ==
  /\ handlers = <<>>
  /\ sent = <<>>
  /\ unhandled = 0
  /\ back = InitialBack
  /\ games = InitialGames
  /\ dbVersion = 0
  /\ pending = {}
  /\ uuids = 0
  /\ queriesObj = 0
  /\ queries = EmptyCache
  /\ nComputed = 0
  /\ completed = <<>>
  /\ init = NoInit
  /\ listeners = <<>>
  /\ files = <<>>
  /\ playlists = <<>>
  /\ lookup = NoLookup
  /\ \E a \in CurrentSettings : \E b \in Candidates(a) :
       dif = [template |-> DefaultSettings, a |-> a, b |-> b,
              called |-> FALSE, result |-> Undefined]

\* difObjects(template, a, b) is called.
DifObjectsCall ==
  /\ ~dif.called
  /\ dif' = [dif EXCEPT !.called = TRUE, !.result = difObjects(dif.template, dif.a, dif.b)]
  /\ UNCHANGED <<handlers, sent, unhandled, cacheVars, init, listeners, files, playlists, back, lookup>>

NextDif == DifObjectsCall

SpecDif == InitDif /\ [][NextDif]_vars

RECURSIVE LeafPaths(_)
LeafPaths(x) ==
  UNION { IF x.fields[i].value.type = "object"
          THEN { <<x.fields[i].key>> \o q : q \in LeafPaths(x.fields[i].value) }
          ELSE { <<x.fields[i].key>> } : i \in 1..Len(x.fields) }

\* The value of x at a path, undefined where the path leaves x.
RECURSIVE ValueAt(_, _)
ValueAt(x, path) ==
  IF path = <<>> THEN x
  ELSE IF x.type # "object" THEN Undefined
  ELSE ValueAt(Get(x, Head(path)), Tail(path))

\* The leaves of x, each with its path.
Leaves(x) == { [path |-> q, value |-> ValueAt(x, q)] : q \in LeafPaths(x) }

\* x holds an object without a property.
RECURSIVE HasEmptyObject(_)
HasEmptyObject(x) ==
  /\ x.type = "object"
  /\ \/ x.fields = <<>>
     \/ \E i \in 1..Len(x.fields) : HasEmptyObject(x.fields[i].value)

\* The changed leaves: the leaf paths of the template where b has a defined
\* value that is not a's.
ChangedLeaves(template, a, b) ==
  { [path |-> q, value |-> ValueAt(b, q)] :
      q \in { r \in LeafPaths(template) :
                /\ ValueAt(b, r).type # "undefined"
                /\ ValueAt(b, r) # ValueAt(a, r) } }

\* b is a partial value of the template's shape: where the template has an
\* object b has an object or nothing, where it has a leaf b has a leaf or
\* nothing.
RECURSIVE IsPartial(_, _)
IsPartial(template, b) ==
  /\ b.type = "object"
  /\ \A i \in 1..Len(template.fields) :
       LET tk == template.fields[i].value
           bk == Get(b, template.fields[i].key)
       IN \/ bk.type = "undefined"
          \/ IF tk.type = "object" THEN IsPartial(tk, bk) ELSE bk.type = tk.type

\* C11: for a of the template's shape and a partial candidate b, the result
\* of difObjects holds exactly the leaves of the template's shape at which b
\* has a defined value different from a's, each with b's value, and no object
\* without a property: nothing outside the template, nothing absent from b,
\* nothing unchanged, no subtree without a changed leaf.
C11_DifIsTheChangedLeaves ==
  (dif.called /\ IsPartial(dif.template, dif.b)) =>
    /\ Leaves(dif.result) = ChangedLeaves(dif.template, dif.a, dif.b)
    /\ ~HasEmptyObject(dif.result)

\* C11 witness: the candidate has unknown properties, a new nested object and
\* one changed leaf in it; the result is that leaf alone.
C11_Witness ==
  /\ dif.called
  /\ IsPartial(dif.template, dif.b)
  /\ Get(dif.b, "unknown").type # "undefined"
  /\ ValueAt(dif.a, <<"nested", "leaf">>) = Prim("number", "0")
  /\ dif.result = Obj(0, <<Field("nested", Obj(0, <<Field("leaf", Prim("number", "1"))>>))>>)

----------------------------------------------------------------------------
(* The life of a cache entry *)

\* games and viewGames of an entry have the same length and the same ids.
Aligned(entry) ==
  /\ Len(entry.viewGames) = Len(entry.games)
  /\ \A i \in 1..Len(entry.games) : entry.viewGames[i].id = entry.games[i].id

\* A step keeps every entry of the cache as it is, or flushes the whole cache.
EntriesKeptOrFlushed ==
  \/ /\ queriesObj' # queriesObj
     /\ queries' = EmptyCache
  \/ \A k \in DOMAIN queries : k \in DOMAIN queries' /\ queries'[k] = queries[k]

\* A step adds an entry only for a lookup that missed and has resumed.
EntriesAddedOnMiss ==
  \A k \in DOMAIN queries' \ DOMAIN queries :
    \E h \in 1..Len(handlers) :
      /\ handlers[h].pc = "got_findGames"
      /\ handlers[h].loc.hash = k
      /\ handlers'[h].pc = "done"

\* C19: in every state every entry of the cache has games and viewGames of
\* the same length with the same ids in the same places, and no step of a
\* handler changes an entry that is stored: an entry appears when a lookup
\* missed, and is gone only when the whole cache is flushed.
C19_EntriesAlignedAndUnchanged ==
  /\ [](\A k \in DOMAIN queries : Aligned(queries[k]))
  /\ [][EntriesKeptOrFlushed /\ EntriesAddedOnMiss]_vars

\* C20: lookup and computation do not yield: of two lookups of equal
\* queries, the second arriving while the handler of the first is still in
\* progress, at most one runs queryGames, and both are answered from the
\* same stored entry (no catalog-mutating request being about).
C20_OneComputationForEqualQueries ==
  \A h1, h2 \in 1..Len(handlers) :
    ( /\ h1 < h2
      /\ IsLookup(h1) /\ IsLookup(h2)
      /\ handlers[h1].loc.hash = handlers[h2].loc.hash
      /\ handlers[h1].pc = "done" /\ handlers[h2].pc = "done"
      /\ \A m \in 1..Len(handlers) : handlers[m].kind \notin MutatingKinds )
    => /\ handlers[h1].loc.calls + handlers[h2].loc.calls <= 1
       /\ handlers[h1].loc.served = handlers[h2].loc.served

\* What the one request of a behaviour does to the count of the catalog it
\* found: a save of a new game and a duplicate of an existing game add one,
\* a delete of an existing game takes one, everything else nothing.
CountChange(me, cat) ==
  CASE me.kind = "SAVE_GAME" -> IF me.arg.game.id \in DOMAIN cat THEN 0 ELSE 1
    [] me.kind = "DELETE_GAME" -> IF me.arg.id \in DOMAIN cat THEN -1 ELSE 0
    [] me.kind = "DUPLICATE_GAME" -> IF me.arg.id \in DOMAIN cat THEN 1 ELSE 0
    [] OTHER -> 0

\* C21: the gamesTotal of the response of save-entry, delete-entry and
\* duplicate-entry is a count read after the request's own write: with no
\* other request in the behaviour, a save of a new game and a duplicate of an
\* existing one report the previous count plus one, a delete of an existing
\* game the previous count minus one.
C21_TotalCountsTheOwnMutation ==
  \A i \in 1..Len(sent) :
    (Len(handlers) = 1 /\ sent[i].type = "BROWSE_CHANGE") =>
      sent[i].data.gamesTotal =
        CountGames(InitialGames) + CountChange(handlers[sent[i].id], InitialGames)

----------------------------------------------------------------------------
(* duplicate-entry with failing image calls *)

\* The lookups running beside the duplicate-entry requests.
DuplicateLookups == {in \in LookupInputs : in.kind = "BROWSE_VIEW_INDEX"}

\* Lookups and duplicate-entry requests against a store that answers every
\* call and a filesystem whose calls may throw.
NextDuplicate ==
  \/ \E ch \in CacheChannels, in \in DuplicateLookups : LookupStart(ch, in)
  \/ \E h \in RequestIds : StoreFindGames(h)
  \/ \E h \in RequestIds : LookupResume(h)
  \/ \E ch \in CacheChannels, in \in DuplicateInputs :
       DuplicateGameStart(ch, in.id, in.dupeImages)
  \/ \E op \in pending : StoreApply(op)
  \/ \E h \in RequestIds : DuplicateGameFound(h)
  \/ \E h \in RequestIds, outcome \in FsOutcomes : DuplicateGameImages(h, outcome)
  \/ \E h \in RequestIds : BrowseChangeRespond(h)

SpecDuplicate == InitCache /\ [][NextDuplicate]_vars

\* A duplicate-entry request with image copying one of whose image calls threw.
ImageFailed(h) ==
  /\ h \in 1..Len(handlers)
  /\ handlers[h].kind = "DUPLICATE_GAME"
  /\ handlers[h].arg.dupeImages
  /\ handlers[h].loc.threw

\* The copy was handed to the store: the write is pending or applied.
Submitted(h) ==
  \/ \E op \in pending : op.by = h /\ ~op.remove
  \/ handlers[h].loc.appliedVer > 0

\* The envelopes carrying the id of request h.
ResponsesTo(h) == {i \in 1..Len(sent) : sent[i].id = h}

\* C22: in duplicate-entry with image copying, a thrown pathExists, mkdir or
\* copyFile does not fail the request: the handler is not left by the error,
\* the copy has been submitted to the store, the response is sent at most
\* once, and once the handler is past the image copying the cache holds none
\* of the entries it held when the request arrived; a finished handler has
\* sent exactly one BROWSE_CHANGE response to its requester.
C22_ImageFailureIsCaught ==
  \A h \in RequestIds :
    ImageFailed(h) =>
      /\ handlers[h].pc # "rejected"
      /\ Submitted(h)
      /\ Cardinality(ResponsesTo(h)) <= 1
      /\ handlers[h].pc \in {"await_countGames", "done"} =>
           handlers[h].loc.preMut \cap CachedStamps = {}
      /\ handlers[h].pc = "done" =>
           \E i \in 1..Len(sent) :
             /\ ResponsesTo(h) = {i}
             /\ sent[i].type = "BROWSE_CHANGE"
             /\ sent[i].to = handlers[h].ch

\* A request whose image call threw has finished and answered; the cache held
\* an entry when it arrived.
C22_Witness ==
  \E h \in RequestIds :
    /\ ImageFailed(h)
    /\ handlers[h].pc = "done"
    /\ handlers[h].loc.preMut # {}
    /\ Cardinality(ResponsesTo(h)) = 1

----------------------------------------------------------------------------
(* The entry computed on a miss: filter and order *)

\* Queries that differ in one field from the query of every game: the
\* direction, the library, the playlist.
QueryEvery == Query(TRUE, TRUE, None, <<>>, "title", "ascending", None)

QueryDescending == Query(TRUE, TRUE, None, <<>>, "title", "descending", None)

QueryTheatre == Query(TRUE, TRUE, "theatre", <<>>, "title", "ascending", None)

QueryFav == Query(TRUE, TRUE, None, <<>>, "title", "ascending", "fav.json")

FilterQueries == {QueryEvery, QueryDescending, QueryTheatre, QueryFav, QueryArcade}

\* browse-page for the first two games of each of the queries.
FilterInputs ==
  { [kind |-> "BROWSE_VIEW_PAGE", data |-> [query |-> q, offset |-> 0, limit |-> 2]] :
      q \in FilterQueries }

\* The cache is empty, or holds the entry an earlier browse left for the
\* query of every game.
InitQuery ==
  /\ handlers = <<>>
  /\ sent = <<>>
  /\ unhandled = 0
  /\ back = InitialBack
  /\ init = NoInit
  /\ listeners = <<>>
  /\ files = <<>>
  /\ playlists = CachePlaylists
  /\ dif = NoDif
  /\ lookup = NoLookup
  /\ games = InitialGames
  /\ dbVersion = 0
  /\ pending = {}
  /\ uuids = 0
  /\ queriesObj = 0
  /\ \/ /\ queries = EmptyCache
        /\ nComputed = 0
        /\ completed = <<>>
     \/ /\ queries = (hashOf(BackQueryOf(QueryEvery)) :>
                        QueryGames(BackQueryOf(QueryEvery),
                                   FindGames(InitialGames,
                                             SearchFilterOpts(QuerySearchOpts(CachePlaylists,
                                                                              BackQueryOf(QueryEvery)))),
                                   1, 0))
        /\ nComputed = 1
        /\ completed = (hashOf(BackQueryOf(QueryEvery)) :> 1)

NextQuery ==
  \/ \E ch \in CacheChannels, in \in FilterInputs : LookupStart(ch, in)
  \/ \E h \in RequestIds : StoreFindGames(h)
  \/ \E h \in RequestIds : LookupResume(h)
  \/ \E ch \in CacheChannels, id \in DeleteInputs : DeleteGameStart(ch, id)
  \/ \E op \in pending : StoreApply(op)
  \/ \E h \in RequestIds : DeleteGameResume(h)
  \/ \E h \in RequestIds : BrowseChangeRespond(h)

SpecQuery == InitQuery /\ [][NextQuery]_vars

\* A game satisfies every filter field of the query.
Satisfies(g, query, list) ==
  /\ query.extreme \/ ~g.extreme
  /\ query.broken \/ ~g.broken
  /\ includes(toLowerCase(g.title), toLowerCase(query.search))
  /\ query.library = None \/ g.library = query.library
  /\ query.playlistId = None \/ g.id \in FindPlaylist(list, query.playlistId).games

\* C16: an entry computed from the catalog as it is now holds exactly the
\* games of the catalog that satisfy every filter field of its query: search
\* text, extreme, broken, library and playlist; none of another library.
C16_EntryIsTheFilteredCatalog ==
  \A k \in DOMAIN queries :
    queries[k].ver = dbVersion =>
      /\ { queries[k].games[i] : i \in 1..Len(queries[k].games) } =
           { games[id] : id \in { x \in DOMAIN games :
                                     Satisfies(games[x], queries[k].query, playlists) } }
      /\ \A i \in 1..Len(queries[k].games) :
           queries[k].query.library \in {None, queries[k].games[i].library}

\* The letters in their order.
Alphabet == <<"a", "b", "c", "f", "m", "z">>

Rank(c) == CHOOSE i \in 1..Len(Alphabet) : Alphabet[i] = c

\* s comes before t: the order of the case-folded titles.
RECURSIVE TitleLess(_, _)
TitleLess(s, t) ==
  IF t = <<>> THEN FALSE
  ELSE IF s = <<>> THEN TRUE
  ELSE IF Head(s) = Head(t) THEN TitleLess(Tail(s), Tail(t))
  ELSE Rank(Head(s)) < Rank(Head(t))

\* g comes before h in the order the query asks for: by title in the
\* query's direction, by id where the titles are equal.
Before(g, h, query) ==
  LET s == toLowerCase(g.title)
      t == toLowerCase(h.title)
  IN IF s = t THEN g.id < h.id
     ELSE IF query.orderReverse = "descending" THEN TitleLess(t, s)
     ELSE TitleLess(s, t)

\* The lookups that began when every mutating request had sent its response
\* and have sent theirs.
LookupsAfterMutations ==
  { h \in 1..Len(handlers) :
      /\ IsLookup(h)
      /\ handlers[h].pc = "done"
      /\ handlers[h].loc.after # {}
      /\ \A m \in 1..Len(handlers) :
           handlers[m].kind \in MutatingKinds => m \in handlers[h].loc.after }

\* C17: the results of an entry are in the order of the query's orderBy
\* field (the title) in the direction of orderReverse, equal titles by id;
\* browse-page with offset 0 and limit 2 returns the two first games of that
\* order with the total of the entry, and a browse-page after a delete-entry
\* reports the total without the deleted game.
C17_EntryIsOrdered ==
  /\ \A k \in DOMAIN queries :
       \A i, j \in 1..Len(queries[k].games) :
         i < j => Before(queries[k].games[i], queries[k].games[j], queries[k].query)
  /\ \A i \in 1..Len(sent) :
       sent[i].type = "BROWSE_VIEW_PAGE_RESPONSE" =>
         /\ Len(sent[i].data.games) = (IF sent[i].data.total < 2 THEN sent[i].data.total ELSE 2)
         /\ sent[i].id \in LookupsAfterMutations =>
              sent[i].data.total =
                Len(FindGames(games, SearchFilterOpts(handlers[sent[i].id].loc.opts)))


----------------------------------------------------------------------------
(* The cache key as a function of the request's query *)

QueryKeys == <<"extreme", "broken", "library", "search", "orderBy", "orderReverse", "playlistId">>

\* The orders a payload may list its fields in.
PayloadOrders ==
  { QueryKeys,
    <<"playlistId", "orderReverse", "orderBy", "search", "library", "broken", "extreme">>,
    <<"search", "library", "extreme", "playlistId", "broken", "orderBy", "orderReverse">> }

\* The queries of a request: two values of every field, a search text with
\* a quote in it, a library and a playlist of the same name.
KeyQueries ==
  { Query(x, b, l, s, o, r, pl) :
      x \in BOOLEAN, b \in BOOLEAN, l \in {None, "arcade"},
      s \in {<<>>, <<"m">>, <<"\"">>},
      o \in {"title", "developer"}, r \in {"ascending", "descending"},
      pl \in {None, "arcade"} }

\* req.data.query as it arrives: the fields of q in the given order, a field
\* that is undefined being absent.
PayloadOf(q, order) ==
  LET F[i \in 0..Len(order)] ==
        IF i = 0 THEN <<>>
        ELSE IF order[i] \in {"library", "playlistId"} /\ q[order[i]] = None THEN F[i - 1]
        ELSE Append(F[i - 1], Field(order[i], q[order[i]]))
  IN F[Len(order)]

\* req.data.query.key: undefined where the payload has no such field.
ReadField(payload, key) ==
  IF \E i \in 1..Len(payload) : payload[i].key = key
  THEN payload[CHOOSE i \in 1..Len(payload) : payload[i].key = key].value
  ELSE None

\* The members of the payload in the payload's own order.
PayloadJson(payload) ==
  <<"{">> \o
  JsonJoin([i \in 1..Len(payload) |->
              <<"\"", payload[i].key, "\"", ":">> \o
              (IF payload[i].key \in {"extreme", "broken"} THEN JsonBool(payload[i].value)
               ELSE IF payload[i].key = "search" THEN JsonString(payload[i].value)
               ELSE JsonString(<<payload[i].value>>))])
  \o <<"}">>

\* A key made of the payload as it arrived.
CacheKeyOfPayload(payload) == createHash(PayloadJson(payload))

\* The key of the lookup handlers: the query is rebuilt field by field from
\* the payload, serialised and hashed.
CacheKey(payload) ==
  hashOf(BackQueryOf(
    Query(ReadField(payload, "extreme"), ReadField(payload, "broken"),
          ReadField(payload, "library"), ReadField(payload, "search"),
          ReadField(payload, "orderBy"), ReadField(payload, "orderReverse"),
          ReadField(payload, "playlistId"))))

\* Two payloads are drawn; no key has been built.
InitKey ==
  /\ handlers = <<>>
  /\ sent = <<>>
  /\ unhandled = 0
  /\ back = InitialBack
  /\ games = InitialGames
  /\ dbVersion = 0
  /\ pending = {}
  /\ uuids = 0
  /\ queriesObj = 0
  /\ queries = EmptyCache
  /\ nComputed = 0
  /\ completed = <<>>
  /\ init = NoInit
  /\ listeners = <<>>
  /\ files = <<>>
  /\ playlists = <<>>
  /\ dif = NoDif
  /\ \E q1 \in KeyQueries, q2 \in KeyQueries, order \in PayloadOrders :
       lookup = [q1 |-> q1, q2 |-> q2,
                 a |-> PayloadOf(q1, QueryKeys), b |-> PayloadOf(q2, order),
                 built |-> FALSE, keyA |-> <<>>, keyB |-> <<>>]

\* The handler builds the key of each of the two payloads.
BuildKeys ==
  /\ ~lookup.built
  /\ lookup' = [lookup EXCEPT !.built = TRUE, !.keyA = CacheKey(lookup.a),
                               !.keyB = CacheKey(lookup.b)]
  /\ UNCHANGED <<handlers, sent, unhandled, cacheVars, init, listeners, files, playlists, dif, back>>

NextKey == BuildKeys

SpecKey == InitKey /\ [][NextKey]_vars

\* C18: the keys of two request queries are the same if the queries are
\* equal field by field, whatever the order of the fields in the payloads,
\* and different if the queries differ in one of extreme, broken, library,
\* search, orderBy, orderReverse, playlistId.
C18_KeyIsTheQuery ==
  lookup.built => ((lookup.keyA = lookup.keyB) <=> (lookup.q1 = lookup.q2))

\* C18 witness: two payloads of the same fields in different orders got the
\* same key; see C18_WitnessDiffer for two queries that differ in the
\* playlist only.
C18_Witness ==
  /\ lookup.built
  /\ lookup.q1 = lookup.q2
  /\ lookup.a # lookup.b
  /\ Len(lookup.a) = 7
  /\ lookup.keyA = lookup.keyB

C18_WitnessDiffer ==
  /\ lookup.built
  /\ lookup.q1 = [lookup.q2 EXCEPT !.playlistId = None]
  /\ lookup.q2.playlistId = "arcade"
  /\ lookup.q2.library = None
  /\ lookup.keyA # lookup.keyB

----------------------------------------------------------------------------
(* The responses of the lookup handlers as functions of the cache entry *)

\* The largest page size of a paged walk.
MaxPageSize == 3

\* The catalogs an entry is computed from: the initial games and a fourth
\* one whose title begins with an upper-case letter, any of them missing.
LookupGames == InitialGames @@ (4 :> Game(4, <<"F", "m">>, "arcade", FALSE, FALSE))

LookupCatalogs == { [id \in S |-> LookupGames[id]] : S \in SUBSET DOMAIN LookupGames }

\* The entry queryGames builds for the query on a catalog.
EntryOf(cat, q) ==
  QueryGames(BackQueryOf(q),
             FindGames(cat, SearchFilterOpts(QuerySearchOpts(CachePlaylists, BackQueryOf(q)))),
             1, 0)

\* The offsets and limits of a browse-page request: negative ones and ones
\* past the end among them.
Offsets == -5..5

Limits == -2..5

\* The prefixes of a quick-search request.
Prefixes == { <<>>, <<"m">>, <<"M">>, <<"z", "a">>, <<"Z">>, <<"f">>, <<"x">> }

\* The ids of a browse-index request (9 is in no catalog).
IndexIds == DOMAIN LookupGames \cup {9}

\* An entry is in the cache; no response has been computed from it.
InitLookup ==
  /\ handlers = <<>>
  /\ sent = <<>>
  /\ unhandled = 0
  /\ back = InitialBack
  /\ games = InitialGames
  /\ dbVersion = 0
  /\ pending = {}
  /\ uuids = 0
  /\ queriesObj = 0
  /\ queries = EmptyCache
  /\ nComputed = 0
  /\ completed = <<>>
  /\ init = NoInit
  /\ listeners = <<>>
  /\ files = <<>>
  /\ playlists = <<>>
  /\ dif = NoDif
  /\ \E cat \in LookupCatalogs, k \in 1..MaxPageSize :
       lookup = [cache |-> EntryOf(cat, QueryEvery), limit |-> k, pages |-> <<>>,
                 kind |-> "none", data |-> <<>>, response |-> <<>>]

\* The offset of the next page of the walk.
NextOffset == Len(lookup.pages) * lookup.limit

\* browse-page for the next page of a walk with a fixed limit from offset 0.
BrowsePageNext ==
  /\ lookup.kind = "none"
  /\ NextOffset = 0 \/ NextOffset < Len(lookup.cache.games)
  /\ lookup' = [lookup EXCEPT
        !.pages = Append(@, PageData([offset |-> NextOffset, limit |-> lookup.limit],
                                     lookup.cache))]

\* The response data of a lookup handler for a request on the entry.
Answer(kind, data) ==
  lookup' = [lookup EXCEPT !.kind = kind, !.data = data,
                           !.response = LookupResponse(kind, "c1", 1, data, lookup.cache).data]

BrowsePageAt(offset, limit) ==
  /\ lookup.kind = "none" /\ lookup.pages = <<>>
  /\ Answer("BROWSE_VIEW_PAGE", [offset |-> offset, limit |-> limit])

BrowseIndexOf(gameId) ==
  /\ lookup.kind = "none" /\ lookup.pages = <<>>
  /\ Answer("BROWSE_VIEW_INDEX", [gameId |-> gameId])

QuickSearchFor(prefix) ==
  /\ lookup.kind = "none" /\ lookup.pages = <<>>
  /\ Answer("QUICK_SEARCH", [search |-> prefix])

NextLookup ==
  /\ \/ BrowsePageNext
     \/ \E offset \in Offsets, limit \in Limits : BrowsePageAt(offset, limit)
     \/ \E gameId \in IndexIds : BrowseIndexOf(gameId)
     \/ \E prefix \in Prefixes : QuickSearchFor(prefix)
  /\ UNCHANGED <<handlers, sent, unhandled, cacheVars, init, listeners, files, playlists, dif, back>>

SpecLookup == InitLookup /\ [][NextLookup]_vars

\* The games of the pages fetched so far, one after the other.
RECURSIVE ConcatGames(_)
ConcatGames(pages) ==
  IF pages = <<>> THEN <<>>
  ELSE ConcatGames(SubSeq(pages, 1, Len(pages) - 1)) \o pages[Len(pages)].games

\* The walk has reached the end of the entry.
WalkDone == lookup.pages # <<>> /\ NextOffset >= Len(lookup.cache.games)

\* C12: with an entry of N results in the cache and a page size k >= 1, the
\* pages of browse-page at offsets 0, k, 2k, ... put one after the other are
\* the first elements of viewGames in their order, they are all of viewGames
\* once the offsets have reached N, no element is twice in them, and every
\* page reports total = N.
C12_PagesConcatenateToTheView ==
  LET N == Len(lookup.cache.games)
      got == ConcatGames(lookup.pages)
  IN /\ got = SubSeq(lookup.cache.viewGames, 1, IF NextOffset < N THEN NextOffset ELSE N)
     /\ WalkDone => got = lookup.cache.viewGames
     /\ \A i, j \in 1..Len(got) : got[i].id = got[j].id => i = j
     /\ \A i \in 1..Len(lookup.pages) :
          /\ lookup.pages[i].total = N
          /\ lookup.pages[i].offset = (i - 1) * lookup.limit

\* C12 witness: an entry of four results walked in pages of three: a full
\* page and a last page of one.
C12_Witness ==
  /\ WalkDone
  /\ Len(lookup.cache.games) = 4
  /\ lookup.limit = 3
  /\ Len(lookup.pages) = 2
  /\ Len(lookup.pages[2].games) = 1
  /\ ConcatGames(lookup.pages) = lookup.cache.viewGames

\* The elements of s at the 0-based indices lo <= i < hi, clipped to s.
ClippedRange(s, lo, hi) ==
  LET from == IF lo > 0 THEN lo ELSE 0
      to == IF hi < Len(s) THEN hi ELSE Len(s)
  IN IF from < to THEN SubSeq(s, from + 1, to) ELSE <<>>

\* C13: for every integer offset and limit, negative ones and ones past the
\* end included, browse-page returns the elements of viewGames at the indices
\* max(offset, 0) <= i < min(offset + limit, N) in order, nothing when that
\* range is empty, and total = N.
C13_PageIsTheClippedRange ==
  lookup.kind = "BROWSE_VIEW_PAGE" =>
    /\ lookup.response.games =
         ClippedRange(lookup.cache.viewGames, lookup.data.offset,
                      lookup.data.offset + lookup.data.limit)
    /\ lookup.response.total = Len(lookup.cache.games)

\* The 0-based indices of the games of the entry whose case-folded title
\* starts with the case-folded prefix.
FoldedMatches(cache, prefix) ==
  { i \in 0..(Len(cache.games) - 1) :
      startsWith(toLowerCase(cache.games[i + 1].title), toLowerCase(prefix)) }

\* C14: quick-search returns the id and the index of the first game of the
\* entry whose case-folded title starts with the case-folded prefix, also
\* for a prefix with upper-case letters, and an absent id and index when
\* there is none.
C14_QuickSearchFoldsCase ==
  lookup.kind = "QUICK_SEARCH" =>
    LET hits == FoldedMatches(lookup.cache, lookup.data.search)
    IN IF hits = {}
       THEN lookup.response = [id |-> <<>>, index |-> <<>>]
       ELSE \E i \in hits :
              /\ \A j \in hits : i <= j
              /\ lookup.response = [id |-> <<lookup.cache.games[i + 1].id>>, index |-> <<i>>]

\* C15: browse-index returns the smallest index i with viewGames[i].id equal
\* to the requested id, and -1 when no element of viewGames has that id.
C15_IndexIsTheFirstOccurrence ==
  lookup.kind = "BROWSE_VIEW_INDEX" =>
    LET view == lookup.cache.viewGames
        index == lookup.response.index
    IN IF \E i \in 1..Len(view) : view[i].id = lookup.data.gameId
       THEN /\ index \in 0..(Len(view) - 1)
            /\ view[index + 1].id = lookup.data.gameId
            /\ \A j \in 1..index : view[j].id # lookup.data.gameId
       ELSE index = -1

\* C15 witness: the id is found behind two other elements; and, in another
\* behaviour, the id is in no element of a non-empty entry (see
\* C15_WitnessAbsent).
C15_Witness ==
  /\ lookup.kind = "BROWSE_VIEW_INDEX"
  /\ Len(lookup.cache.viewGames) >= 3
  /\ lookup.response.index = 2
  /\ lookup.cache.viewGames[3].id = lookup.data.gameId

C15_WitnessAbsent ==
  /\ lookup.kind = "BROWSE_VIEW_INDEX"
  /\ Len(lookup.cache.viewGames) >= 1
  /\ lookup.response.index = -1

----------------------------------------------------------------------------
(* The other registered handlers *)

\* The number of requests dispatched when every handler is registered.
MaxDispatch == 1

\* A request of kind arrives on ch; its handler runs up to pc.
Start(ch, kind, pc, arg, loc) ==
  /\ Len(handlers) < MaxDispatch
  /\ ~back.exited
  /\ handlers' = Append(handlers, Handler(kind, ch, pc, arg, loc))

\* Handler h, of kind, resumes from its await at pc.
Resumes(h, kind, pc) ==
  /\ InFlight(h)
  /\ handlers[h].kind = kind
  /\ handlers[h].pc = pc

\* respond(event.target, {id: req.id, type, data}) at the end of handler h.
Respond(h, ch, type, data) == sent' = Append(sent, Envelope(ch, h, type, data))

\* log(state, entry): the entry is added to state.log.
Log(entry) == Append(back.log, entry)

LauncherLog(content) == [source |-> "Launcher", content |-> content]

\* append-log-entry: the entry is logged, no response is sent.
AddLog(ch, data) ==
  /\ Start(ch, "ADD_LOG", "done", data, <<>>)
  /\ back' = [back EXCEPT !.log = Log(data)]
  /\ UNCHANGED <<sent, unhandled, cacheVars, init, listeners, files, playlists, dif, lookup>>

GetMainInitData(ch) ==
  /\ Start(ch, "GET_MAIN_INIT_DATA", "done", <<>>, <<>>)
  /\ Respond(Len(handlers) + 1, ch, "GET_MAIN_INIT_DATA",
             [preferences |-> back.preferences, config |-> back.config])
  /\ UNCHANGED <<unhandled, cacheVars, nonCacheVars>>

SetLocale(ch, data) ==
  /\ Start(ch, "SET_LOCALE", "done", data, <<>>)
  /\ back' = [back EXCEPT !.localeCode = data]
  /\ Respond(Len(handlers) + 1, ch, "LOCALE_UPDATE", data)
  /\ UNCHANGED <<unhandled, cacheVars, init, listeners, files, playlists, dif, lookup>>

\* state.execMappings
ExecMappings == <<>>

GetExec(ch) ==
  /\ Start(ch, "GET_EXEC", "done", <<>>, <<>>)
  /\ Respond(Len(handlers) + 1, ch, "GENERIC_RESPONSE", ExecMappings)
  /\ UNCHANGED <<unhandled, cacheVars, nonCacheVars>>

\* proc.spawn(), proc.kill(), proc.restart(); any other action changes nothing.
ProcessAction(proc, action) ==
  CASE action = "START" -> "running"
    [] action = "STOP" -> "stopped"
    [] action = "RESTART" -> "running"
    [] OTHER -> proc

ServiceActionInputs ==
  { [id |-> "server", action |-> "START"], [id |-> "redirector", action |-> "STOP"] }

ServiceAction(ch, data) ==
  /\ Start(ch, "SERVICE_ACTION", "done", data, <<>>)
  /\ back' = IF data.id \in DOMAIN back.services
             THEN [back EXCEPT !.services[data.id] = ProcessAction(@, data.action)]
             ELSE back
  /\ Respond(Len(handlers) + 1, ch, "GENERIC_RESPONSE", None)
  /\ UNCHANGED <<unhandled, cacheVars, init, listeners, files, playlists, dif, lookup>>

GetPlaylists(ch) ==
  /\ Start(ch, "GET_PLAYLISTS", "done", <<>>, <<>>)
  /\ Respond(Len(handlers) + 1, ch, "GENERIC_RESPONSE", playlists)
  /\ UNCHANGED <<unhandled, cacheVars, nonCacheVars>>

\* quit: the response is sent, then exit(state) ends the process.
Quit(ch) ==
  /\ Start(ch, "QUIT", "done", <<>>, <<>>)
  /\ Respond(Len(handlers) + 1, ch, "QUIT", None)
  /\ back' = [back EXCEPT !.exited = TRUE]
  /\ UNCHANGED <<unhandled, cacheVars, init, listeners, files, playlists, dif, lookup>>

\* An envelope of socketServer.broadcast for every connected channel.
Broadcast(envelope) ==
  LET F[S \in SUBSET Channels] ==
        IF S = {} THEN <<>>
        ELSE LET ch == CHOOSE ch \in S : TRUE
             IN Append(F[S \ {ch}], [envelope EXCEPT !.to = ch])
  IN F[Channels]

\* A language-change event that carries the id of the request.
LanguageChangeCorrelated(id, container) == Envelope(None, id, "LANGUAGE_CHANGE", container)

\* broadcast({id: '', type: LANGUAGE_CHANGE, data: state.languageContainer})
LanguageChange(id, container) == Envelope(None, EmptyId, "LANGUAGE_CHANGE", container)

\* overwritePreferenceData(target, dif): the leaves of dif are written into
\* target, which keeps its identity.
RECURSIVE overwritePreferenceData(_, _)
overwritePreferenceData(target, d) ==
  IF d.type # "object" \/ target.type # "object" THEN target
  ELSE Obj(target.ref,
           [i \in 1..Len(target.fields) |->
              LET key == target.fields[i].key
                  old == target.fields[i].value
                  new == Get(d, key)
              IN Field(key, IF new.type = "undefined" THEN old
                            ELSE IF new.type = "object" THEN overwritePreferenceData(old, new)
                            ELSE new)])

\* Every difference counts as a change of language.
LanguageChangesAlways(d, preferences) == TRUE

\* dif.currentLanguage or dif.fallbackLanguage is defined and differs from
\* the current setting.
LanguageChanges(d, preferences) ==
  \E key \in {"currentLanguage", "fallbackLanguage"} :
    /\ Get(d, key).type # "undefined"
    /\ StrictNotEqual(Get(d, key), Get(preferences, key))

\* The language of the new container: the one of dif if defined.
LanguageOf(d, preferences, key) ==
  IF Get(d, key).type # "undefined" THEN Get(d, key).val ELSE Get(preferences, key).val

\* The settings patches: empty, a language, the fallback language, a nested
\* leaf, a language equal to the current one, and a nested leaf equal to the
\* current one.
UpdatePreferencesInputs ==
  { Settings(20, Undefined, Undefined, Undefined),
    Settings(20, Prim("string", "fr"), Undefined, Undefined),
    Settings(20, Undefined, Prim("string", "fr"), Undefined),
    Settings(20, Undefined, Undefined, Nested(21, Prim("number", "1"), Undefined)),
    Settings(20, Prim("string", "en"), Undefined, Undefined),
    Settings(20, Undefined, Undefined, Nested(21, Prim("number", "0"), Undefined)) }

\* What update-settings found when it arrived (bookkeeping): the settings,
\* the language container, the settings file and the envelopes sent so far.
ArrivedAt ==
  [before |-> back.preferences, container |-> back.languageContainer,
   file |-> back.preferencesFile, sentAt |-> Len(sent)]

\* update-settings: the difference to the current settings is computed; a
\* change of language is broadcast; the settings are overwritten and saved.
UpdatePreferences(ch, data) ==
  LET id == Len(handlers) + 1
      d == difObjects(DefaultSettings, back.preferences, data)
      changes == LanguageChanges(d, back.preferences)
      container == IF changes
                   THEN createContainer(LanguageOf(d, back.preferences, "currentLanguage"),
                                        back.localeCode,
                                        LanguageOf(d, back.preferences, "fallbackLanguage"))
                   ELSE back.languageContainer
      preferences == overwritePreferenceData(back.preferences, d)
  IN IF Truthy(d)
     THEN /\ Start(ch, "UPDATE_PREFERENCES", "await_saveFile_preferences", data,
                   [saving |-> preferences, at |-> ArrivedAt])
          /\ sent' = IF changes THEN sent \o Broadcast(LanguageChange(id, container)) ELSE sent
          /\ back' = [back EXCEPT !.languageContainer = container, !.preferences = preferences]
          /\ UNCHANGED <<unhandled, cacheVars, init, listeners, files, playlists, dif, lookup>>
     ELSE /\ Start(ch, "UPDATE_PREFERENCES", "done", data, [at |-> ArrivedAt])
          /\ Respond(id, ch, "UPDATE_PREFERENCES_RESPONSE", back.preferences)
          /\ UNCHANGED <<unhandled, cacheVars, nonCacheVars>>

\* The settings file is saved and update-settings sends its response.
UpdatePreferencesSaved(h) ==
  /\ Resumes(h, "UPDATE_PREFERENCES", "await_saveFile_preferences")
  /\ back' = [back EXCEPT !.preferencesFile = handlers[h].loc.saving]
  /\ handlers' = [handlers EXCEPT ![h].pc = "done"]
  /\ Respond(h, handlers[h].ch, "UPDATE_PREFERENCES_RESPONSE", back.preferences)
  /\ UNCHANGED <<unhandled, cacheVars, init, listeners, files, playlists, dif, lookup>>

----------------------------------------------------------------------------
(* Handlers that read the catalog store *)

\* GameManager.findGames() with no filter: every game.
FindAllGames(cat) == FindGames(cat, [search |-> <<>>, extreme |-> TRUE, broken |-> TRUE,
                                     playlist |-> NoPlaylist])

\* GameManager.findGame(id): the game, or undefined.
FindGame(cat, id) == IF id \in DOMAIN cat THEN cat[id] ELSE None

\* GameManager.findLibraries(): the libraries of the catalog, each once.
FindLibraries(cat) ==
  LET ids == SortedById(DOMAIN cat)
      F[i \in 0..Len(ids)] ==
        IF i = 0 THEN <<>>
        ELSE IF \E j \in 1..Len(F[i - 1]) : F[i - 1][j] = cat[ids[i]].library
        THEN F[i - 1]
        ELSE Append(F[i - 1], cat[ids[i]].library)
  IN F[Len(ids)]

\* GameManager.findPlatforms(library)
FindPlatforms(cat, library) == <<"Flash">>

\* GameManager.findAddApp(id): the add-apps of the store.
AddApps == {50}

GetGamesTotal(ch) ==
  /\ Start(ch, "GET_GAMES_TOTAL", "await_countGames", <<>>, <<>>)
  /\ UNCHANGED <<sent, unhandled, cacheVars, nonCacheVars>>

GetGamesTotalRespond(h) ==
  /\ Resumes(h, "GET_GAMES_TOTAL", "await_countGames")
  /\ handlers' = [handlers EXCEPT ![h].pc = "done"]
  /\ Respond(h, handlers[h].ch, "GENERIC_RESPONSE", CountGames(games))
  /\ UNCHANGED <<unhandled, cacheVars, nonCacheVars>>

GetGame(ch, data) ==
  /\ Start(ch, "GET_GAME", "await_findGame", data, <<>>)
  /\ UNCHANGED <<sent, unhandled, cacheVars, nonCacheVars>>

GetGameRespond(h) ==
  /\ Resumes(h, "GET_GAME", "await_findGame")
  /\ handlers' = [handlers EXCEPT ![h].pc = "done"]
  /\ Respond(h, handlers[h].ch, "GENERIC_RESPONSE", [game |-> FindGame(games, handlers[h].arg.id)])
  /\ UNCHANGED <<unhandled, cacheVars, nonCacheVars>>

GetAllGames(ch) ==
  /\ Start(ch, "GET_ALL_GAMES", "await_findAllGames", <<>>, <<>>)
  /\ UNCHANGED <<sent, unhandled, cacheVars, nonCacheVars>>

GetAllGamesRespond(h) ==
  /\ Resumes(h, "GET_ALL_GAMES", "await_findAllGames")
  /\ handlers' = [handlers EXCEPT ![h].pc = "done"]
  /\ Respond(h, handlers[h].ch, "GENERIC_RESPONSE", [games |-> FindAllGames(games)])
  /\ UNCHANGED <<unhandled, cacheVars, nonCacheVars>>

\* get-random-entries: count games are picked at random, none twice.
RandomGames(ch, data) ==
  /\ Start(ch, "RANDOM_GAMES", "await_findAllGames", data, <<>>)
  /\ UNCHANGED <<sent, unhandled, cacheVars, nonCacheVars>>

RandomGamesRespond(h) ==
  /\ Resumes(h, "RANDOM_GAMES", "await_findAllGames")
  /\ handlers' = [handlers EXCEPT ![h].pc = "done"]
  /\ \E picked \in SUBSET DOMAIN games :
       /\ Cardinality(picked) =
            (IF handlers[h].arg.count < Cardinality(DOMAIN games)
             THEN handlers[h].arg.count ELSE Cardinality(DOMAIN games))
       /\ \E order \in [1..Cardinality(picked) -> picked] :
            /\ \A i, j \in DOMAIN order : i # j => order[i] # order[j]
            /\ Respond(h, handlers[h].ch, "GENERIC_RESPONSE",
                       [i \in DOMAIN order |-> games[order[i]]])
  /\ UNCHANGED <<unhandled, cacheVars, nonCacheVars>>

\* get-suggestions: findGames, then findLibraries inside the response.
GetSuggestions(ch) ==
  /\ Start(ch, "GET_SUGGESTIONS", "await_findAllGames", <<>>, [games |-> <<>>])
  /\ UNCHANGED <<sent, unhandled, cacheVars, nonCacheVars>>

GetSuggestionsGames(h) ==
  /\ Resumes(h, "GET_SUGGESTIONS", "await_findAllGames")
  /\ handlers' = [handlers EXCEPT ![h].pc = "await_findLibraries",
                                  ![h].loc.games = FindAllGames(games)]
  /\ UNCHANGED <<sent, unhandled, cacheVars, nonCacheVars>>

GetSuggestionsRespond(h) ==
  /\ Resumes(h, "GET_SUGGESTIONS", "await_findLibraries")
  /\ handlers' = [handlers EXCEPT ![h].pc = "done"]
  /\ Respond(h, handlers[h].ch, "GENERIC_RESPONSE",
             [suggestions |-> [library |-> FindLibraries(games)],
              appPaths |-> Len(handlers[h].loc.games)])
  /\ UNCHANGED <<unhandled, cacheVars, nonCacheVars>>

\* launch-entry: the game is looked up and, if found, launched.
LaunchGame(ch, data) ==
  /\ Start(ch, "LAUNCH_GAME", "await_findGame", data, <<>>)
  /\ UNCHANGED <<sent, unhandled, cacheVars, nonCacheVars>>

LaunchGameRespond(h) ==
  /\ Resumes(h, "LAUNCH_GAME", "await_findGame")
  /\ handlers' = [handlers EXCEPT ![h].pc = "done"]
  /\ back' = IF handlers[h].arg.id \in DOMAIN games
             THEN [back EXCEPT !.launched = @ \cup {handlers[h].arg.id}] ELSE back
  /\ Respond(h, handlers[h].ch, "GENERIC_RESPONSE", None)
  /\ UNCHANGED <<unhandled, cacheVars, init, listeners, files, playlists, dif, lookup>>

LaunchAddApp(ch, data) ==
  /\ Start(ch, "LAUNCH_ADDAPP", "await_findAddApp", data, <<>>)
  /\ UNCHANGED <<sent, unhandled, cacheVars, nonCacheVars>>

LaunchAddAppRespond(h) ==
  /\ Resumes(h, "LAUNCH_ADDAPP", "await_findAddApp")
  /\ handlers' = [handlers EXCEPT ![h].pc = "done"]
  /\ back' = IF handlers[h].arg.id \in AddApps
             THEN [back EXCEPT !.launched = @ \cup {handlers[h].arg.id}] ELSE back
  /\ Respond(h, handlers[h].ch, "GENERIC_RESPONSE", None)
  /\ UNCHANGED <<unhandled, cacheVars, init, listeners, files, playlists, dif, lookup>>

\* The ids asked for: a game of the catalog, an add-app, and neither.
GameIdInputs == { [id |-> 1], [id |-> 50] }

\* get-full-init-data: the language container is rebuilt, then the libraries
\* and the platforms of each library are read from the store.
GetRendererInitData(ch) ==
  /\ Start(ch, "GET_RENDERER_INIT_DATA", "await_findLibraries", <<>>,
           [libraries |-> <<>>, platforms |-> <<>>])
  /\ back' = [back EXCEPT !.languageContainer =
                createContainer(Get(back.preferences, "currentLanguage").val, back.localeCode,
                                Get(back.preferences, "fallbackLanguage").val)]
  /\ UNCHANGED <<sent, unhandled, cacheVars, init, listeners, files, playlists, dif, lookup>>

RendererInitData(me) ==
  [preferences |-> back.preferences, config |-> back.config, log |-> back.log,
   language |-> back.languageContainer,
   playlists |-> IF init # NoInit /\ init["PLAYLISTS"] THEN playlists ELSE <<>>,
   libraries |-> me.loc.libraries, platforms |-> me.loc.platforms,
   localeCode |-> back.localeCode]

\* The handler resumes with the libraries, or with the platforms of one.
GetRendererInitDataResume(h) ==
  /\ InFlight(h)
  /\ handlers[h].kind = "GET_RENDERER_INIT_DATA"
  /\ LET me == handlers[h]
         got == IF me.pc = "await_findLibraries"
                THEN [me EXCEPT !.loc.libraries = FindLibraries(games)]
                ELSE [me EXCEPT !.loc.platforms =
                        Append(@, FindPlatforms(games, me.loc.libraries[Len(me.loc.platforms) + 1]))]
         next == IF Len(got.loc.platforms) < Len(got.loc.libraries)
                 THEN [got EXCEPT !.pc = "await_findPlatforms"]
                 ELSE [got EXCEPT !.pc = "done"]
     IN /\ handlers' = [handlers EXCEPT ![h] = next]
        /\ sent' = IF next.pc = "done"
                   THEN Append(sent, Envelope(me.ch, h, "GENERIC_RESPONSE", RendererInitData(next)))
                   ELSE sent
  /\ UNCHANGED <<unhandled, cacheVars, nonCacheVars>>

----------------------------------------------------------------------------
(* Handlers that write files or call the importer and the launcher *)

\* The outcomes of a call in a try block: it succeeds or it throws.
TryOutcomes == {"true", "throws"}

\* The pieces of a path between its separators.
Split(s) ==
  LET F[i \in 0..Len(s)] ==
        IF i = 0 THEN << <<>> >>
        ELSE IF s[i] = "/" THEN Append(F[i - 1], <<>>)
        ELSE [F[i - 1] EXCEPT ![Len(F[i - 1])] = Append(@, s[i])]
  IN F[Len(s)]

\* path.normalize on the pieces of a relative path: an empty piece and "."
\* are dropped, ".." removes the piece before it and stays where there is
\* none to remove.
Normalize(segments) ==
  LET F[i \in 0..Len(segments)] ==
        IF i = 0 THEN <<>>
        ELSE LET out == F[i - 1]
                 seg == segments[i]
             IN IF seg \in {<<>>, <<".">>} THEN out
                ELSE IF seg = <<".", ".">> /\ out # <<>> /\ out[Len(out)] # <<".", ".">>
                THEN SubSeq(out, 1, Len(out) - 1)
                ELSE Append(out, seg)
  IN F[Len(segments)]

\* The pieces of every part, in order.
Pieces(parts) ==
  LET F[i \in 0..Len(parts)] == IF i = 0 THEN <<>> ELSE F[i - 1] \o Split(parts[i])
  IN F[Len(parts)]

\* path.join(...parts): the normalized pieces joined by the separator; "."
\* when nothing is left.
pathJoin(parts) ==
  LET segments == Normalize(Pieces(parts))
      F[i \in 0..Len(segments)] ==
        IF i = 0 THEN <<>>
        ELSE IF i = 1 THEN segments[1]
        ELSE F[i - 1] \o <<"/">> \o segments[i]
  IN IF segments = <<>> THEN <<".">> ELSE F[Len(segments)]

\* path.join(state.config.flashpointPath, state.config.imageFolderPath)
ImageFolder(config) ==
  pathJoin(<<Get(config, "flashpointPath").val, Get(config, "imageFolderPath").val>>)

\* fullPath.startsWith(imageFolder)
InsideImageFolder(fullPath, imageFolder) == startsWith(fullPath, imageFolder)

\* Requests for an image in folder "L"; with a folder that sanitizes to "..";
\* and with an empty folder and an id that begins with "..".
ImageInputs ==
  { [folder |-> <<"L">>, id |-> <<"a", "b", "c", "d">>, content |-> "png"],
    [folder |-> <<".", "/", ".">>, id |-> <<"a", "b", "c", "d">>, content |-> "png"],
    [folder |-> <<>>, id |-> <<".", ".", "I", "x">>, content |-> "png"] }

\* The folder and id after sanitizing, as the response carries them.
ImageChange(data) == [id |-> sanitizeFilename(data.id), folder |-> sanitizeFilename(data.folder)]

\* path.join(imageFolder, folder, id.substr(0, 2), id.substr(2, 2), id + '.png')
ImagePath(config, data) ==
  LET folder == ImageChange(data).folder
      id == ImageChange(data).id
  IN pathJoin(<<ImageFolder(config), folder, substr(id, 0, 2), substr(id, 2, 2),
                id \o <<".", "p", "n", "g">> >>)

\* save-image: inside the image folder the directory is made and the file
\* written; a failure of either is logged.
SaveImage(ch, data) ==
  /\ IF InsideImageFolder(ImagePath(back.config, data), ImageFolder(back.config))
     THEN /\ Start(ch, "SAVE_IMAGE", "try_mkdir", data, <<>>)
          /\ UNCHANGED sent
     ELSE /\ Start(ch, "SAVE_IMAGE", "done", data, <<>>)
          /\ Respond(Len(handlers) + 1, ch, "IMAGE_CHANGE", ImageChange(data))
  /\ UNCHANGED <<unhandled, cacheVars, nonCacheVars>>

SaveImageResume(h, outcome) ==
  /\ InFlight(h)
  /\ handlers[h].kind = "SAVE_IMAGE"
  /\ LET me == handlers[h]
     IN IF me.pc = "try_mkdir" /\ outcome = "true"
        THEN /\ handlers' = [handlers EXCEPT ![h].pc = "try_writeFile"]
             /\ UNCHANGED <<sent, back>>
        ELSE /\ handlers' = [handlers EXCEPT ![h].pc = "done"]
             /\ back' = IF outcome = "throws" THEN [back EXCEPT !.log = Log(LauncherLog("e"))]
                        ELSE [back EXCEPT !.images = @ \cup {ImagePath(back.config, me.arg)}]
             /\ Respond(h, me.ch, "IMAGE_CHANGE", ImageChange(me.arg))
  /\ UNCHANGED <<unhandled, cacheVars, init, listeners, files, playlists, dif, lookup>>

\* delete-image: inside the image folder a file that is there is unlinked.
DeleteImage(ch, data) ==
  /\ IF InsideImageFolder(ImagePath(back.config, data), ImageFolder(back.config))
     THEN /\ Start(ch, "DELETE_IMAGE", "try_stat", data, <<>>)
          /\ UNCHANGED sent
     ELSE /\ Start(ch, "DELETE_IMAGE", "done", data, <<>>)
          /\ Respond(Len(handlers) + 1, ch, "IMAGE_CHANGE", ImageChange(data))
  /\ UNCHANGED <<unhandled, cacheVars, nonCacheVars>>

DeleteImageResume(h) ==
  /\ InFlight(h)
  /\ handlers[h].kind = "DELETE_IMAGE"
  /\ LET me == handlers[h]
     IN IF me.pc = "try_stat" /\ ImagePath(back.config, me.arg) \in back.images
        THEN /\ handlers' = [handlers EXCEPT ![h].pc = "try_unlink"]
             /\ UNCHANGED <<sent, back>>
        ELSE /\ handlers' = [handlers EXCEPT ![h].pc = "done"]
             /\ back' = [back EXCEPT !.images = @ \ {ImagePath(back.config, me.arg)}]
             /\ Respond(h, me.ch, "IMAGE_CHANGE", ImageChange(me.arg))
  /\ UNCHANGED <<unhandled, cacheVars, init, listeners, files, playlists, dif, lookup>>

\* overwriteConfigData(newConfig, patch)
overwriteConfigData(target, patch) == overwritePreferenceData(target, patch)

UpdateConfigInputs == { Obj(31, <<Field("flashpointPath", Prim("string", <<"f", "p", "2">>))>>) }

\* update-config: the patch is written into a copy of the config, which is
\* saved.  The write changes the object it is made to: state.config changes
\* with it if the copy is that same object.
UpdateConfig(ch, data) ==
  LET newConfig == deepCopy(back.config)
      written == overwriteConfigData(newConfig, data)
  IN /\ Start(ch, "UPDATE_CONFIG", "try_saveFile", data, [newConfig |-> written])
     /\ back' = [back EXCEPT !.config = IF newConfig.ref = @.ref THEN written ELSE @]
     /\ UNCHANGED <<sent, unhandled, cacheVars, init, listeners, files, playlists, dif, lookup>>

UpdateConfigSaved(h, outcome) ==
  /\ Resumes(h, "UPDATE_CONFIG", "try_saveFile")
  /\ handlers' = [handlers EXCEPT ![h].pc = "done"]
  /\ back' = IF outcome = "throws" THEN [back EXCEPT !.log = Log(LauncherLog("error"))]
             ELSE [back EXCEPT !.configFile = handlers[h].loc.newConfig]
  /\ Respond(h, handlers[h].ch, "GENERIC_RESPONSE", None)
  /\ UNCHANGED <<unhandled, cacheVars, init, listeners, files, playlists, dif, lookup>>

ExportInputs == { [id |-> 1, metaOnly |-> TRUE], [id |-> 1, metaOnly |-> FALSE],
                  [id |-> 9, metaOnly |-> TRUE] }

\* Where export-entry goes next from an await, given the call's outcome.
ExportNext(me, outcome) ==
  CASE me.pc = "export_pathExists" -> IF outcome = "true" THEN "export_findGame" ELSE "done"
    [] me.pc = "export_findGame" -> IF me.arg.id \in DOMAIN games THEN "try_writeFile" ELSE "done"
    [] me.pc = "try_writeFile" -> IF me.arg.metaOnly THEN "done" ELSE "try_logo_pathExists"
    [] me.pc = "try_logo_pathExists" ->
         IF outcome = "true" THEN "try_logo_copyFile" ELSE "try_shot_pathExists"
    [] me.pc = "try_logo_copyFile" -> "try_shot_pathExists"
    [] me.pc = "try_shot_pathExists" -> IF outcome = "true" THEN "try_shot_copyFile" ELSE "done"
    [] me.pc = "try_shot_copyFile" -> "done"

\* The file a successful write or copy of export-entry leaves.
ExportWrites(me, outcome) ==
  IF outcome = "true" /\ me.pc \in {"try_writeFile", "try_logo_copyFile", "try_shot_copyFile"}
  THEN {[id |-> me.arg.id, file |-> me.pc]} ELSE {}

ExportGame(ch, data) ==
  /\ Start(ch, "EXPORT_GAME", "export_pathExists", data, <<>>)
  /\ UNCHANGED <<sent, unhandled, cacheVars, nonCacheVars>>

ExportGameResume(h, outcome) ==
  /\ InFlight(h)
  /\ handlers[h].kind = "EXPORT_GAME"
  /\ handlers[h].pc \in {"export_pathExists", "export_findGame"} => outcome # "throws"
  /\ LET me == handlers[h]
         next == ExportNext(me, outcome)
     IN /\ handlers' = [handlers EXCEPT ![h].pc = next]
        /\ back' = [back EXCEPT !.exported = @ \cup ExportWrites(me, outcome)]
        /\ sent' = IF next = "done"
                   THEN Append(sent, Envelope(me.ch, h, "GENERIC_RESPONSE", None)) ELSE sent
  /\ UNCHANGED <<unhandled, cacheVars, init, listeners, files, playlists, dif, lookup>>

\* import-curation: an error of the importer is carried by the response.
ImportCuration(ch) ==
  /\ Start(ch, "IMPORT_CURATION", "try_importCuration", <<>>, <<>>)
  /\ UNCHANGED <<sent, unhandled, cacheVars, nonCacheVars>>

ImportCurationRespond(h, outcome) ==
  /\ Resumes(h, "IMPORT_CURATION", "try_importCuration")
  /\ handlers' = [handlers EXCEPT ![h].pc = "done"]
  /\ Respond(h, handlers[h].ch, "GENERIC_RESPONSE",
             [error |-> IF outcome = "throws" THEN "error" ELSE None])
  /\ UNCHANGED <<unhandled, cacheVars, nonCacheVars>>

\* launch-curation and launch-curation-sub-entry: an error is logged.
LaunchCuration(ch) ==
  /\ Start(ch, "LAUNCH_CURATION", "try_launchCuration", <<>>, <<>>)
  /\ UNCHANGED <<sent, unhandled, cacheVars, nonCacheVars>>

LaunchCurationAddApp(ch) ==
  /\ Start(ch, "LAUNCH_CURATION_ADDAPP", "try_launchAddAppCuration", <<>>, <<>>)
  /\ UNCHANGED <<sent, unhandled, cacheVars, nonCacheVars>>

LaunchCurationRespond(h, outcome) ==
  /\ InFlight(h)
  /\ handlers[h].pc \in {"try_launchCuration", "try_launchAddAppCuration"}
  /\ handlers' = [handlers EXCEPT ![h].pc = "done"]
  /\ back' = IF outcome = "throws" THEN [back EXCEPT !.log = Log(LauncherLog("e"))] ELSE back
  /\ Respond(h, handlers[h].ch, "GENERIC_RESPONSE", None)
  /\ UNCHANGED <<unhandled, cacheVars, init, listeners, files, playlists, dif, lookup>>

----------------------------------------------------------------------------
(* Every registered handler, requests arriving on any channel *)

\* The image folders of the configurations: "Img", and the one-letter "I".
ImageFolderPaths == {<<"I", "m", "g">>, <<"I">>}

\* The configuration the back was started with.
Configs ==
  { Obj(30, <<Field("flashpointPath", Prim("string", <<"f", "p">>)),
              Field("imageFolderPath", Prim("string", folder))>>) :
      folder \in ImageFolderPaths }

\* The state at registration: nothing cached, the playlists not loaded yet
\* (that milestone is pending), one playlist file in the folder.
InitDispatch ==
  /\ handlers = <<>>
  /\ sent = <<>>
  /\ unhandled = 0
  /\ \E config \in Configs : back = [InitialBack EXCEPT !.config = config]
  /\ games = InitialGames
  /\ dbVersion = 0
  /\ pending = {}
  /\ uuids = 0
  /\ queriesObj = 0
  /\ queries = EmptyCache
  /\ nComputed = 0
  /\ completed = <<>>
  /\ init = [k \in BackInitKeys |-> k # "PLAYLISTS"]
  /\ listeners = <<>>
  /\ files = FolderOf({FooJson})
  /\ playlists = <<>>
  /\ dif = NoDif
  /\ lookup = NoLookup

\* A request arrives on a channel and its handler starts.
Dispatch ==
  /\ Len(handlers) < MaxDispatch
  /\ \E ch \in Channels :
       \/ \E data \in {[source |-> "Game", content |-> "x"]} : AddLog(ch, data)
       \/ GetMainInitData(ch)
       \/ GetRendererInitData(ch)
       \/ InitListen(ch)
       \/ GetSuggestions(ch)
       \/ GetGamesTotal(ch)
       \/ \E data \in {"fr-fr"} : SetLocale(ch, data)
       \/ GetExec(ch)
       \/ \E data \in GameIdInputs : LaunchAddApp(ch, data)
       \/ \E data \in GameIdInputs : LaunchGame(ch, data)
       \/ \E game \in SaveInputs : SaveGameStart(ch, game)
       \/ \E id \in DeleteInputs : DeleteGameStart(ch, id)
       \/ \E in \in DuplicateInputs : DuplicateGameStart(ch, in.id, in.dupeImages)
       \/ \E data \in ExportInputs : ExportGame(ch, data)
       \/ \E data \in GameIdInputs : GetGame(ch, data)
       \/ GetAllGames(ch)
       \/ \E data \in {[count |-> 2]} : RandomGames(ch, data)
       \/ \E in \in LookupInputs : LookupStart(ch, in)
       \/ \E data \in ImageInputs : SaveImage(ch, data)
       \/ \E data \in ImageInputs : DeleteImage(ch, data)
       \/ \E data \in UpdateConfigInputs : UpdateConfig(ch, data)
       \/ \E data \in UpdatePreferencesInputs : UpdatePreferences(ch, data)
       \/ \E data \in ServiceActionInputs : ServiceAction(ch, data)
       \/ GetPlaylists(ch)
       \/ \E data \in SavePlaylistInputs : SavePlaylistStart(ch, data, MaxDispatch)
       \/ \E id \in DeletePlaylistInputs : DeletePlaylistStart(ch, id, MaxDispatch)
       \/ ImportCuration(ch)
       \/ LaunchCuration(ch)
       \/ LaunchCurationAddApp(ch)
       \/ Quit(ch)

\* A suspended handler resumes, the store applies a write, a milestone completes.
Settle ==
  \/ \E h \in RequestIds : GetRendererInitDataResume(h)
  \/ \E h \in RequestIds : GetSuggestionsGames(h)
  \/ \E h \in RequestIds : GetSuggestionsRespond(h)
  \/ \E h \in RequestIds : GetGamesTotalRespond(h)
  \/ \E h \in RequestIds : LaunchAddAppRespond(h)
  \/ \E h \in RequestIds : LaunchGameRespond(h)
  \/ \E op \in pending : StoreApply(op)
  \/ \E h \in RequestIds : SaveGameResume(h)
  \/ \E h \in RequestIds : DeleteGameResume(h)
  \/ \E h \in RequestIds : DuplicateGameFound(h)
  \/ \E h \in RequestIds, outcome \in FsOutcomes : DuplicateGameImages(h, outcome)
  \/ \E h \in RequestIds : BrowseChangeRespond(h)
  \/ \E h \in RequestIds, outcome \in FsOutcomes : ExportGameResume(h, outcome)
  \/ \E h \in RequestIds : GetGameRespond(h)
  \/ \E h \in RequestIds : GetAllGamesRespond(h)
  \/ \E h \in RequestIds : RandomGamesRespond(h)
  \/ \E h \in RequestIds : StoreFindGames(h)
  \/ \E h \in RequestIds : LookupResume(h)
  \/ \E h \in RequestIds, outcome \in TryOutcomes : SaveImageResume(h, outcome)
  \/ \E h \in RequestIds : DeleteImageResume(h)
  \/ \E h \in RequestIds, outcome \in TryOutcomes : UpdateConfigSaved(h, outcome)
  \/ \E h \in RequestIds : UpdatePreferencesSaved(h)
  \/ \E h \in RequestIds : SavePlaylistExists(h)
  \/ \E h \in RequestIds : SavePlaylistProbed(h)
  \/ \E h \in RequestIds : SavePlaylistSaved(h)
  \/ \E h \in RequestIds, outcome \in TryOutcomes : ImportCurationRespond(h, outcome)
  \/ \E h \in RequestIds, outcome \in TryOutcomes : LaunchCurationRespond(h, outcome)
  \/ \E key \in BackInitKeys : CompleteMilestone(key)

\* Once exit(state) has run nothing more happens.
NextDispatch ==
  /\ ~back.exited
  /\ Dispatch \/ Settle

SpecDispatch == InitDispatch /\ [][NextDispatch]_vars

----------------------------------------------------------------------------
(* Correlation of the envelopes with the requests *)

\* The envelopes sent so far that carry id.
Carrying(id) == {i \in 1..Len(sent) : sent[i].id = id}

----------------------------------------------------------------------------
(* update-settings *)

UpdateSettings == {h \in 1..Len(handlers) : handlers[h].kind = "UPDATE_PREFERENCES"}

\* The patch of request h gives a language that is not the one the settings
\* had when the request arrived.
PatchChangesLanguage(h) ==
  \E key \in {"currentLanguage", "fallbackLanguage"} :
    LET new == Get(handlers[h].arg, key)
        old == Get(handlers[h].loc.at.before, key)
    IN new.type # "undefined" /\ (new.type # old.type \/ new.val # old.val)

LanguageChangesSent == {i \in 1..Len(sent) : sent[i].type = "LANGUAGE_CHANGE"}

\* The envelopes update-settings request h sent before it first suspended.
SentOnArrival(h) ==
  {i \in 1..Len(sent) :
     /\ i > handlers[h].loc.at.sentAt
     /\ i <= handlers[h].loc.at.sentAt + Cardinality(Channels)}

\* C23: every channel has received as many language-change events as there
\* were update-settings requests whose patch changed currentLanguage or
\* fallbackLanguage, each with the empty id; a request that changed a language
\* sent one to every channel when it arrived, and its own response comes
\* after them.
C23_BroadcastIffLanguageChanges ==
  /\ \A ch \in Channels :
       Cardinality({i \in LanguageChangesSent : sent[i].to = ch}) =
         Cardinality({h \in UpdateSettings : PatchChangesLanguage(h)})
  /\ \A i \in LanguageChangesSent : sent[i].id = EmptyId
  /\ \A h \in UpdateSettings :
       PatchChangesLanguage(h) =>
         /\ SentOnArrival(h) \subseteq LanguageChangesSent
         /\ \A ch \in Channels : \E i \in SentOnArrival(h) : sent[i].to = ch
         /\ \A j \in Carrying(h) : \A i \in SentOnArrival(h) : i < j

\* A request that changed the fallback language has been answered after its
\* broadcast reached both channels.
C23_Witness ==
  \E h \in UpdateSettings :
    /\ PatchChangesLanguage(h)
    /\ Get(handlers[h].arg, "fallbackLanguage").type # "undefined"
    /\ Cardinality(SentOnArrival(h)) = Cardinality(Channels)
    /\ \E j \in Carrying(h) : sent[j].type = "UPDATE_PREFERENCES_RESPONSE"

\* A request that changed a setting other than a language has been answered
\* and nothing was broadcast.
C23_WitnessNoBroadcast ==
  \E h \in UpdateSettings :
    /\ ~PatchChangesLanguage(h)
    /\ Get(handlers[h].arg, "nested").type # "undefined"
    /\ Carrying(h) # {}
    /\ LanguageChangesSent = {}

----------------------------------------------------------------------------
(* save-image and delete-image: the image folder *)

ImageHandlers ==
  {h \in 1..Len(handlers) : handlers[h].kind \in {"SAVE_IMAGE", "DELETE_IMAGE"}}

\* path lies within folder: the pieces of folder are the first pieces of path.
Within(path, folder) ==
  LET p == Split(path)
      f == Split(folder)
  IN Len(f) <= Len(p) /\ SubSeq(p, 1, Len(f)) = f

\* The awaits of the image handlers that make a directory, write or unlink.
ImageWrites == {"try_mkdir", "try_writeFile", "try_unlink"}

\* C24: every image file written lies within the image folder; a save-image
\* or delete-image request whose path does not lie within it never waits for
\* a mkdir, a write or an unlink, and once it has finished it has sent its
\* one response, as has every finished request for a path within.
C24_NothingOutsideTheImageFolder ==
  /\ \A path \in back.images : Within(path, ImageFolder(back.config))
  /\ \A h \in ImageHandlers :
       /\ ~Within(ImagePath(back.config, handlers[h].arg), ImageFolder(back.config)) =>
            handlers[h].pc \notin ImageWrites
       /\ handlers[h].pc = "done" =>
            \E i \in Carrying(h) : Carrying(h) = {i} /\ sent[i].type = "IMAGE_CHANGE"

----------------------------------------------------------------------------
(* save-playlist: renaming and overwriting in place *)

\* The save-playlist requests with a file name to save under.
Saves ==
  {h \in 1..Len(handlers) :
     handlers[h].kind = "SAVE_PLAYLIST" /\ handlers[h].loc.filename # <<>>}

\* The renames: prevFilename is given and is not the file name.
Renames ==
  {h \in Saves : /\ handlers[h].arg.prevFilename # <<>>
                  /\ handlers[h].arg.prevFilename # handlers[h].loc.filename}

\* The saves in place: prevFilename is the file name.
InPlace == {h \in Saves : handlers[h].arg.prevFilename = handlers[h].loc.filename}

\* C25: a rename waits for the unlink of the previous file, or has unlinked
\* it, only once it has written the playlist under the name it allocated; a
\* rename that allocated no name or whose write failed has written and
\* unlinked nothing; a save in place probes no name, unlinks nothing and
\* writes under its file name only.
C25_RenameDeletesAfterTheWrite ==
  /\ \A h \in Renames :
       LET me == handlers[h]
       IN /\ (me.pc = "await_unlink" \/ me.loc.unlinked) =>
               /\ me.loc.coolFilename # <<>>
               /\ me.loc.wrote = <<me.loc.coolFilename>>
               /\ me.loc.target = me.arg.prevFilename
          /\ me.loc.coolFilename = <<>> =>
               /\ me.loc.wrote = <<>>
               /\ ~me.loc.unlinked
               /\ me.pc \notin {"await_saveFile", "await_unlink"}
          /\ me.loc.wrote = <<>> => ~me.loc.unlinked
  /\ \A h \in InPlace :
       LET me == handlers[h]
       IN /\ me.loc.probes = <<>>
          /\ ~me.loc.taken
          /\ me.pc \notin {"await_pathExists", "await_pathExists_str", "await_unlink"}
          /\ ~me.loc.unlinked
          /\ me.loc.wrote \in {<<>>, <<me.loc.filename>>}

\* A rename has written the playlist under a numbered name and then unlinked
\* the previous file.
C25_Witness ==
  \E h \in Renames :
    /\ handlers[h].pc = "done"
    /\ handlers[h].loc.unlinked
    /\ handlers[h].loc.taken
    /\ handlers[h].loc.wrote # <<>>
    /\ handlers[h].loc.wrote[1] \in DOMAIN files
    /\ handlers[h].arg.prevFilename \notin DOMAIN files

\* The write of a rename failed and the previous file is still there.
C25_WitnessWriteFailed ==
  \E h \in Renames :
    /\ handlers[h].pc = "rejected"
    /\ handlers[h].loc.wrote = <<>>
    /\ Len(handlers) = 1
    /\ handlers[h].arg.prevFilename \in DOMAIN files

\* A save in place has overwritten the file and answered.
C25_WitnessInPlace ==
  \E h \in InPlace :
    /\ handlers[h].pc = "done"
    /\ handlers[h].loc.wrote = <<handlers[h].loc.filename>>
    /\ files[handlers[h].loc.filename] = handlers[h].arg.playlist
    /\ Carrying(h) # {}

\* The patch gives no leaf a value other than the one the settings have.
ChangesNoLeaf(patch, preferences) ==
  /\ IsPartial(DefaultSettings, patch)
  /\ ChangedLeaves(DefaultSettings, preferences, patch) = {}

\* An update-settings request whose patch changes no leaf arrives in this step.
ArrivesUnchanging ==
  /\ Len(handlers') = Len(handlers) + 1
  /\ handlers'[Len(handlers')].kind = "UPDATE_PREFERENCES"
  /\ ChangesNoLeaf(handlers'[Len(handlers')].arg, back.preferences)

\* C26: the step in which an update-settings request arrives whose patch
\* changes no leaf leaves the state of the back as it is (the preferences, the
\* language container, the settings file), ends the handler, and sends one
\* envelope: the response to the requester, carrying the preferences.
C26_UnchangingPatchChangesNothing ==
  [][ArrivesUnchanging =>
       /\ back' = back
       /\ handlers'[Len(handlers')].pc = "done"
       /\ sent' = Append(sent, Envelope(handlers'[Len(handlers')].ch, Len(handlers'),
                                        "UPDATE_PREFERENCES_RESPONSE", back.preferences))]_vars

\* A patch that gives the nested leaf its current value has been answered with
\* the preferences; nothing was saved or broadcast.
C26_Witness ==
  \E h \in UpdateSettings :
    /\ ChangesNoLeaf(handlers[h].arg, handlers[h].loc.at.before)
    /\ Get(handlers[h].arg, "nested").type # "undefined"
    /\ handlers[h].pc = "done"
    /\ back.preferencesFile = handlers[h].loc.at.file
    /\ LanguageChangesSent = {}
    /\ \E i \in Carrying(h) : sent[i].data = handlers[h].loc.at.before

\* The saves of new playlists: no prevFilename is given.
NewSaves == {h \in Saves : handlers[h].arg.prevFilename = <<>>}

\* C27: when only save-playlist requests have been made, two saves of new
\* playlists with the same desired file name that have both written their
\* file, whether or not they were in flight at once, have written under
\* different names.
C27_ConcurrentSavesKeepNamesApart ==
  \A h1 \in NewSaves : \A h2 \in NewSaves :
    ( /\ h1 # h2
      /\ \A h \in 1..Len(handlers) : handlers[h].kind = "SAVE_PLAYLIST"
      /\ handlers[h1].loc.filename = handlers[h2].loc.filename
      /\ handlers[h1].loc.wrote # <<>>
      /\ handlers[h2].loc.wrote # <<>> ) =>
      handlers[h1].loc.wrote # handlers[h2].loc.wrote

----------------------------------------------------------------------------
(* listen-for-init-milestones: one request *)

Listens == {h \in 1..Len(handlers) : handlers[h].kind = "INIT_LISTEN"}

\* How often the done list of the response to request h names key.
ListedDone(h, key) ==
  Cardinality({<<i, j>> \in (1..Len(sent)) \X (1..Len(BackInit)) :
                 /\ sent[i].id = h
                 /\ j <= Len(sent[i].data.done)
                 /\ sent[i].data.done[j] = key})

\* How often key has been reported to the channel of request h.
Reported(h, key) == ListedDone(h, key) + Cardinality(Notifications(handlers[h].ch, key))

\* C28: when one listen request has been made, no milestone is reported to
\* its channel twice, a milestone is notified only once it has completed and
\* only if it was pending at the request, every milestone that has completed
\* has been reported once, and every notification comes after the response.
C28_EachMilestoneReportedOnce ==
  \A h \in Listens :
    Listens = {h} =>
      /\ \A key \in BackInitKeys :
           /\ Reported(h, key) = IF init[key] THEN 1 ELSE 0
           /\ ListedDone(h, key) = IF key \in handlers[h].loc.pendingAt THEN 0 ELSE 1
      /\ \A i \in 1..Len(sent) :
           (sent[i].type = "INIT_EVENT" /\ sent[i].id = EmptyId) =>
             /\ sent[i].to = handlers[h].ch
             /\ \E j \in 1..(i - 1) : sent[j].id = h

\* Every milestone has completed; the one request listed GAMES as done and
\* was notified of PLAYLISTS and EXEC afterwards.
C28_Witness ==
  \E h \in Listens :
    /\ Listens = {h}
    /\ \A key \in BackInitKeys : init[key]
    /\ handlers[h].loc.pendingAt = {"PLAYLISTS", "EXEC"}
    /\ ListedDone(h, "GAMES") = 1
    /\ Cardinality(Notifications(handlers[h].ch, "PLAYLISTS")) = 1
    /\ Cardinality(Notifications(handlers[h].ch, "EXEC")) = 1

----------------------------------------------------------------------------
(* update-config *)

UpdatesOfConfig == {h \in 1..Len(handlers) : handlers[h].kind = "UPDATE_CONFIG"}

\* The log holds the error of a failed write of the config file.
LoggedWriteError == \E i \in 1..Len(back.log) : back.log[i] = LauncherLog("error")

\* C29: state.config is the configuration the back was started with, whatever
\* update-config requests were made; each request patched a copy, a different
\* object; the config file holds nothing or the patched copy of a request; no
\* request is left by an error; a request that waits for the write has sent
\* nothing, and one that has finished has written its copy or logged the
\* error, and has sent exactly one response, to its requester.
C29_UpdateConfigKeepsTheState ==
  /\ back.config \in Configs
  /\ back.configFile \in {Undefined} \cup {handlers[h].loc.newConfig : h \in UpdatesOfConfig}
  /\ \A h \in UpdatesOfConfig :
       LET me == handlers[h]
       IN /\ me.loc.newConfig.ref # back.config.ref
          /\ Get(me.loc.newConfig, "flashpointPath") = Get(me.arg, "flashpointPath")
          /\ Get(me.loc.newConfig, "imageFolderPath") = Get(back.config, "imageFolderPath")
          /\ me.pc \in {"try_saveFile", "done"}
          /\ me.pc = "try_saveFile" => Carrying(h) = {}
          /\ me.pc = "done" =>
               /\ back.configFile # Undefined \/ LoggedWriteError
               /\ \E i \in Carrying(h) :
                    /\ Carrying(h) = {i}
                    /\ sent[i].type = "GENERIC_RESPONSE"
                    /\ sent[i].to = me.ch

\* The write of the config file failed: the error is logged, no file was
\* written, the request was answered and state.config still has its path.
C29_Witness ==
  \E h \in UpdatesOfConfig :
    /\ handlers[h].pc = "done"
    /\ LoggedWriteError
    /\ back.configFile = Undefined
    /\ Carrying(h) # {}
    /\ Get(back.config, "flashpointPath") # Get(handlers[h].arg, "flashpointPath")

\* The config file was written with the patched copy.
C29_WitnessSaved ==
  \E h \in UpdatesOfConfig :
    /\ handlers[h].pc = "done"
    /\ back.configFile = handlers[h].loc.newConfig
    /\ Get(back.configFile, "flashpointPath") = Get(handlers[h].arg, "flashpointPath")
    /\ ~LoggedWriteError
    /\ Carrying(h) # {}

====
